---------------------------- MODULE Spec2Model ----------------------------
(***************************************************************************)
(* Model of opage's schema resolution pass: the component walker           *)
(* (parser/component.rs), the object builder and enum builder              *)
(* (parser/component/object_definition.rs), the type resolver              *)
(* (component/type_definition.rs) and the operation resolver               *)
(* (generator/rust_reqwest_async/path).                                    *)
(*                                                                         *)
(* Every Rust function that reads or writes the ObjectDatabase is an       *)
(* operator that threads a store [db, log]: db is the database as the      *)
(* function sees it, log is the sequence of events (inserts and returns of *)
(* get_or_create_object) the call has produced so far.  One loop iteration *)
(* of generate_components (or one generate_operation call) is computed by  *)
(* an action and its events are then replayed one at a time, so that every *)
(* database state the program passes through is a state of the model.      *)
(*                                                                         *)
(* Names are strings.  format! is \o.  convert_case is a table over the    *)
(* names the inputs give rise to (a name outside the table is one that is  *)
(* already in the target case).  A HashMap is a function; a BTreeMap is a  *)
(* sequence of entries sorted by key; Option<T> is a sequence of length at *)
(* most one.  A string built by successive += is the sequence of the       *)
(* fragments appended.                                                     *)
(***************************************************************************)
EXTENDS Integers, Sequences, FiniteSets, TLC

VARIABLES
    spec,             \* the parsed OpenAPI document (input)
    config,           \* Config: name_mapping and ignore (input)
    object_database,  \* ObjectDatabase: canonical name -> ObjectDefinition
    pc,               \* position of main: "components", "paths", "write",
                      \* "done", or "overflow" when the stack was exhausted
    index,            \* position of the running loop (components, then operations)
    pending,          \* events of the running unit not yet replayed
    history,          \* events replayed so far, each with its phase and unit
    outcomes,         \* per component processed: what the loop body did
    generated_paths,  \* per operation processed: what generate_operation returned
    files,            \* object files written: database key -> path and content
    call              \* a direct call of get_type_from_schema: its arguments
                      \* and, once it has returned, its result; None in a pass

vars == <<spec, config, object_database, pc, index, pending, history, outcomes,
          generated_paths, files, call>>

----------------------------------------------------------------------------
(* Bounds *)

\* Number of nested calls of the resolver (get_type_from_schema and what it
\* calls, generate_object, get_or_create_property) the stack can hold. The
\* deepest nesting of a document whose resolution ends is 10 (a cycle of three
\* objects, or two objects that hold arrays of each other).
MaxDepth == 12

----------------------------------------------------------------------------
(* Option, Result and store helpers *)

None == <<>>
Some(x) == <<x>>
IsSome(o) == Len(o) > 0
Unwrap(o) == o[1]

EmptyMap == <<>>

Ok(v, s) == [st |-> "ok", val |-> v, s |-> s]
Err(e, s) == [st |-> "err", val |-> e, s |-> s]
\* The stack is exhausted: the process aborts, whatever the callers would do.
Overflow(s) ==
    [st |-> "overflow", val |-> "stack overflow",
     s |-> [db |-> s.db, log |-> Append(s.log, [ev |-> "overflow"])]]

\* HashMap::insert / ObjectDatabase::insert: the new value replaces an old one.
MapInsert(m, k, v) == (k :> v) @@ m

\* object_database.insert(key, definition), recorded as an event.
DbInsert(s, key, definition) ==
    [db  |-> MapInsert(s.db, key, definition),
     log |-> Append(s.log, [ev |-> "insert", key |-> key, val |-> definition])]

\* The return of one get_or_create_object call, recorded as an event.
LogReturn(s, key, how, st, val) ==
    [db  |-> s.db,
     log |-> Append(s.log, [ev |-> "return", key |-> key, how |-> how,
                            st |-> st, val |-> val])]

\* The return of one get_type_from_schema call, recorded as an event; unchanged
\* tells whether the database is the same as when the call was made.
LogType(s, object_schema, fallback, st, val, unchanged) ==
    [db  |-> s.db,
     log |-> Append(s.log, [ev |-> "type", schema |-> object_schema,
                            fallback |-> fallback, st |-> st, val |-> val,
                            unchanged |-> unchanged])]

\* The return of one generate_struct call, recorded as an event.
LogStruct(s, object_schema, struct_definition) ==
    [db  |-> s.db,
     log |-> Append(s.log, [ev |-> "struct", schema |-> object_schema,
                            val |-> struct_definition])]

----------------------------------------------------------------------------
(* Schemas of the input document (oas3::spec::ObjectSchema) *)

Ref(ref_path) == [ref_path |-> ref_path]
Obj(schema) == [object |-> schema]
IsRef(object_or_reference) == "ref_path" \in DOMAIN object_or_reference

SchemaRef(key) == Ref(<<"#", "components", "schemas", key>>)

Schema(schema_type, title, properties, required, items, any_of, one_of, all_of) ==
    [schema_type |-> schema_type, title |-> title, properties |-> properties,
     required |-> required, items |-> items, any_of |-> any_of,
     one_of |-> one_of, all_of |-> all_of, const_value |-> None]

Prop(name, object_or_reference) == [name |-> name, value |-> object_or_reference]

\* BTreeMap::get on a sequence of entries.
Lookup(entries, key) ==
    LET hits == {i \in 1..Len(entries) : entries[i].name = key}
    IN  IF hits = {} THEN None ELSE Some(entries[CHOOSE i \in hits : TRUE].value)

Last(seq) == seq[Len(seq)]
Front(seq) == SubSeq(seq, 1, Len(seq) - 1)

\* ObjectOrReference::resolve (oas3): an inline object is itself, a reference is
\* looked up by the last segment of its path in components.schemas and resolved
\* in turn; a reference to a missing component is an error.
RECURSIVE resolve(_, _)
resolve(document, object_or_reference) ==
    IF ~IsRef(object_or_reference)
    THEN [ok |-> TRUE, val |-> object_or_reference.object]
    ELSE LET found == Lookup(document.components, Last(object_or_reference.ref_path))
         IN  IF Len(object_or_reference.ref_path) # 4 \/ ~IsSome(found)
             THEN [ok |-> FALSE, val |-> "Unresolvable"]
             ELSE resolve(document, Unwrap(found))

----------------------------------------------------------------------------
(* Name mapping (utils/name_mapping.rs) *)

\* name.to_case(Case::Pascal)
ToPascal(name) ==
    CASE name = "cat_model" -> "CatModel"
      [] name = "cat" -> "Cat"
      [] name = "filter" -> "Filter"
      [] name = "get_testOKJson" -> "GetTestOkJson"
      [] name = "get_testNot FoundJson" -> "GetTestNotFoundJson"
      [] name = "get_testRequestBodyJson" -> "GetTestRequestBodyJson"
      [] name = "get_testQueryParameters" -> "GetTestQueryParameters"
      [] name = "get_testPathParameters" -> "GetTestPathParameters"
      [] name = "get_testResponseType" -> "GetTestResponseType"
      [] name = "get_test" -> "GetTest"
      [] name = "OK" -> "Ok"
      [] name = "OKValue" -> "OkValue"
      [] name = "Not Found" -> "NotFound"
      [] name = "Not FoundValue" -> "NotFoundValue"
      [] OTHER -> name

\* name.to_case(Case::Snake)
ToSnake(name) ==
    CASE name = "A" -> "a"
      [] name = "B" -> "b"
      [] name = "Alpha" -> "alpha"
      [] name = "Cat" -> "cat"
      [] name = "CatModel" -> "cat_model"
      [] name = "Object" -> "object"
      [] name = "Filter" -> "filter"
      [] name = "AValue" -> "a_value"
      [] name = "BValue" -> "b_value"
      [] name = "AlphaValue" -> "alpha_value"
      [] name = "CatValue" -> "cat_value"
      [] name = "CatModelValue" -> "cat_model_value"
      [] name = "myProp" -> "my_prop"
      [] name = "getTest" -> "get_test"
      [] name = "GetTestOkJson" -> "get_test_ok_json"
      [] name = "GetTestNotFoundJson" -> "get_test_not_found_json"
      [] name = "GetTestRequestBodyJson" -> "get_test_request_body_json"
      [] name = "get_testJson" -> "get_test_json"
      [] name = "get_testText" -> "get_test_text"
      [] name = "GetTestPathParameters" -> "get_test_path_parameters"
      [] name = "GetTestQueryParameters" -> "get_test_query_parameters"
      [] name = "petId" -> "pet_id"
      [] name = "myParam" -> "my_param"
      [] OTHER -> name

\* path_to_string: the lookup key of a name in its definition path.
path_to_string(path, token_name) == <<path, token_name>>

name_to_struct_name(path, name) ==
    LET converted_name == ToPascal(name)
        path_str == path_to_string(path, converted_name)
        struct_mapping == config.name_mapping.struct_mapping
    IN  IF path_str \in DOMAIN struct_mapping
        THEN struct_mapping[path_str]
        ELSE converted_name

name_to_property_name(path, name) ==
    LET converted_name == ToSnake(name)
        path_str == path_to_string(path, converted_name)
        property_mapping == config.name_mapping.property_mapping
    IN  IF path_str \in DOMAIN property_mapping
        THEN property_mapping[path_str]
        ELSE converted_name

name_to_module_name(name) ==
    LET converted_name == ToSnake(name)
        module_mapping == config.name_mapping.module_mapping
    IN  IF converted_name \in DOMAIN module_mapping
        THEN module_mapping[converted_name]
        ELSE converted_name

\* SpecIgnore::component_ignored
component_ignored(component) == component \in config.ignore.components

----------------------------------------------------------------------------
(* Object definitions (component/object_definition/types.rs) *)

ModuleInfo(name, path) == [name |-> name, path |-> path]

TypeDefinition(name, module) == [name |-> name, module |-> module]

SerdeModules ==
    <<ModuleInfo("Serialize", "serde"), ModuleInfo("Deserialize", "serde")>>

StructDefinition(name, used_modules) ==
    [kind |-> "Struct", name |-> name, used_modules |-> used_modules,
     properties |-> EmptyMap, local_objects |-> EmptyMap]

EnumDefinition(name, used_modules) ==
    [kind |-> "Enum", name |-> name, used_modules |-> used_modules,
     values |-> EmptyMap]

PrimitveDefinition(name, primitive_type) ==
    [kind |-> "Primitive", name |-> name, primitive_type |-> primitive_type]

\* A resolver that answers every object with the anonymous type Object: the
\* reference no longer carries the name the object is stored under.
ObjectType_Anonymous(object_name) == TypeDefinition("Object", None)

\* The reference to a named object of the database, as the type resolver
\* builds it from the object's name.
ObjectType(object_name) ==
    TypeDefinition(object_name,
        Some(ModuleInfo(object_name,
                        "crate::objects::" \o name_to_module_name(object_name))))

get_components_base_path == <<"#", "components", "schemas">>

get_object_name(object_definition) == object_definition.name

is_object_empty_Never(object_schema) == FALSE

is_object_empty(object_schema) ==
    /\ ~IsSome(object_schema.schema_type)
    /\ ~IsSome(object_schema.const_value)
    /\ Len(object_schema.any_of) = 0
    /\ Len(object_schema.all_of) = 0
    /\ Len(object_schema.one_of) = 0

\* SchemaType values are written as the strings oas3_type_to_string gives them.
oas3_type_to_string(oas3_type) == oas3_type

Single(schema_type) == [single |-> schema_type]
Multiple(schema_types) == [multiple |-> schema_types]
IsSingle(schema_type_set) == "single" \in DOMAIN schema_type_set

RECURSIVE JoinNames(_)
JoinNames(names) ==
    IF Len(names) = 0 THEN "" ELSE names[1] \o JoinNames(Tail(names))

get_base_path_to_ref(ref_path) ==
    IF Len(ref_path) < 4
    THEN [ok |-> FALSE, val |-> "Expected 4 path segments"]
    ELSE [ok |-> TRUE, val |-> Front(ref_path)]

\* The definition path and struct name a schema or reference is known by.
get_object_or_ref_struct_name(definition_path, object_or_reference) ==
    IF IsRef(object_or_reference)
    THEN LET ref_definition_path == get_base_path_to_ref(object_or_reference.ref_path)
             resolved == resolve(spec, object_or_reference)
         IN  IF ~ref_definition_path.ok THEN ref_definition_path
             ELSE IF ~resolved.ok
             THEN [ok |-> FALSE, val |-> "Failed to resolve object"]
             ELSE IF IsSome(resolved.val.title)
             THEN [ok |-> TRUE,
                   val |-> <<ref_definition_path.val,
                             name_to_struct_name(ref_definition_path.val,
                                                 Unwrap(resolved.val.title))>>]
             ELSE [ok |-> TRUE,
                   val |-> <<ref_definition_path.val,
                             name_to_struct_name(ref_definition_path.val,
                                                 Last(object_or_reference.ref_path))>>]
    ELSE LET object_schema == object_or_reference.object
         IN  IF IsSome(object_schema.title)
             THEN [ok |-> TRUE,
                   val |-> <<definition_path,
                             name_to_struct_name(definition_path,
                                                 Unwrap(object_schema.title))>>]
             ELSE IF IsSome(object_schema.schema_type)
             THEN LET schema_type == Unwrap(object_schema.schema_type)
                      type_name == IF IsSingle(schema_type)
                                   THEN oas3_type_to_string(schema_type.single)
                                   ELSE JoinNames(schema_type.multiple)
                  IN  [ok |-> TRUE,
                       val |-> <<definition_path,
                                 name_to_struct_name(definition_path, type_name)>>]
             ELSE [ok |-> FALSE, val |-> "Unable to determine object name"]

----------------------------------------------------------------------------
(* The resolver: object_definition.rs and type_definition.rs.              *)
(* s is the store, d the number of resolver calls the call is nested in.   *)

\* let v = value; body: Let(value, LAMBDA v : body).
Let(value, Body(_)) == Body(value)

RECURSIVE generate_object(_, _, _, _, _)
RECURSIVE generate_enum_from_any(_, _, _, _, _)
RECURSIVE generate_enum_from_one_of(_, _, _, _, _)
RECURSIVE generate_struct(_, _, _, _, _)
RECURSIVE get_or_create_property(_, _, _, _, _, _)
RECURSIVE get_or_create_object(_, _, _, _, _)
RECURSIVE get_type_from_schema(_, _, _, _, _)
RECURSIVE get_type_from_any_type(_, _, _, _, _)
RECURSIVE get_type_from_schema_type(_, _, _, _, _, _)
RECURSIVE generate_enum_values(_, _, _, _, _, _, _)
RECURSIVE add_enum_value(_, _, _, _, _, _, _, _)
RECURSIVE generate_struct_properties(_, _, _, _, _, _, _)
RECURSIVE add_property(_, _, _, _, _, _, _)

\* An early return of the code is an arm of a CASE: the arms are read in the
\* order they are written and the first whose guard holds decides.

\* object_schema.schema_type, or SchemaTypeSet::Single(String) when there is none.
schema_type_or_string(object_schema) ==
    IF IsSome(object_schema.schema_type)
    THEN Unwrap(object_schema.schema_type)
    ELSE Single("String")

\* Ok(type_definition) => Ok(ObjectDefinition::Primitive(..)), Err(err) => Err(err)
primitive_object(name, r) ==
    CASE r.st = "ok" -> Ok(PrimitveDefinition(name, r.val), r.s)
      [] OTHER -> r

generate_object(s, d, definition_path, name, object_schema) ==
    CASE is_object_empty(object_schema) -> Err("Object is empty", s)
      [] Len(object_schema.any_of) > 0 ->
            generate_enum_from_any(s, d, definition_path, name, object_schema)
      [] Len(object_schema.one_of) > 0 ->
            generate_enum_from_one_of(s, d, definition_path, name, object_schema)
      [] ~IsSingle(schema_type_or_string(object_schema)) ->
            Err("Multiple types are not supported", s)
      [] schema_type_or_string(object_schema).single = "Object" ->
            generate_struct(s, d, definition_path, name, object_schema)
      [] OTHER ->
            primitive_object(name,
                get_type_from_schema(s, d, definition_path, object_schema,
                                     Some(name)))

\* The definition path of an enum member: of the reference, or the enum's own.
member_definition_path(definition_path, member) ==
    IF IsRef(member)
    THEN get_base_path_to_ref(member.ref_path)
    ELSE [ok |-> TRUE, val |-> definition_path]

\* The struct name of an enum member.
member_struct_name(definition_path, member) ==
    get_object_or_ref_struct_name(
        member_definition_path(definition_path, member).val, member)

\* object_type_enum_name: the name of the member's variant.
object_type_enum_name(definition_path, member) ==
    name_to_struct_name(member_definition_path(definition_path, member).val,
        member_struct_name(definition_path, member).val[2] \o "Value")

\* The loop over the members of an anyOf or oneOf list, from member i on.
generate_enum_values(s, d, definition_path, name, members, enum_definition, i) ==
    CASE i > Len(members) -> Ok(enum_definition, s)
      [] \/ ~resolve(spec, members[i]).ok
         \/ ~member_definition_path(definition_path, members[i]).ok ->
            generate_enum_values(s, d, definition_path, name, members,
                                 enum_definition, i + 1)
      [] ~member_struct_name(definition_path, members[i]).ok ->
            Err("Anonymous enum value are not supported", s)
      [] OTHER ->
            add_enum_value(d, definition_path, name, members, enum_definition, i,
                object_type_enum_name(definition_path, members[i]),
                get_type_from_schema(s, d + 1,
                    member_definition_path(definition_path, members[i]).val,
                    resolve(spec, members[i]).val,
                    Some(object_type_enum_name(definition_path, members[i]))))

\* The rest of the loop body once the member's type is there: the variant is
\* inserted, or the member skipped when its type failed.
add_enum_value(d, definition_path, name, members, enum_definition, i, value_name, r) ==
    CASE r.st = "overflow" -> r
      [] r.st = "err" ->
            generate_enum_values(r.s, d, definition_path, name, members,
                                 enum_definition, i + 1)
      [] OTHER ->
            generate_enum_values(r.s, d, definition_path, name, members,
                [enum_definition EXCEPT !.values =
                    MapInsert(@, value_name,
                              [name |-> value_name, value_type |-> r.val])],
                i + 1)

generate_enum_from_any(s, d, definition_path, name, object_schema) ==
    generate_enum_values(s, d,
        Append(definition_path, name_to_struct_name(definition_path, name)),
        name, object_schema.any_of,
        EnumDefinition(name_to_struct_name(definition_path, name), SerdeModules),
        1)

generate_enum_from_one_of(s, d, definition_path, name, object_schema) ==
    generate_enum_values(s, d,
        Append(definition_path, name_to_struct_name(definition_path, name)),
        name, object_schema.one_of,
        EnumDefinition(name_to_struct_name(definition_path, name), SerdeModules),
        1)

\* A builder that takes every property for a required one.
property_required_Always(object_schema, property_name) == TRUE

\* object_schema.required.iter().any(|property| property == property_name)
property_required(object_schema, property_name) ==
    property_name \in object_schema.required

\* The loop over the schema's properties, from property i on.
generate_struct_properties(s, d, definition_path, name, object_schema, struct_definition, i) ==
    CASE i > Len(object_schema.properties) ->
            Ok(struct_definition, LogStruct(s, object_schema, struct_definition))
      [] OTHER ->
            add_property(d, definition_path, name, object_schema,
                struct_definition, i,
                get_or_create_property(s, d + 1, definition_path,
                    object_schema.properties[i].name,
                    object_schema.properties[i].value,
                    property_required(object_schema,
                                      object_schema.properties[i].name)))

\* The rest of the loop body once the property is there: it is inserted, or
\* skipped when it failed.
add_property(d, definition_path, name, object_schema, struct_definition, i, r) ==
    CASE r.st = "overflow" -> r
      [] r.st = "err" ->
            generate_struct_properties(r.s, d, definition_path, name,
                object_schema, struct_definition, i + 1)
      [] OTHER ->
            generate_struct_properties(r.s, d, definition_path, name,
                object_schema,
                [struct_definition EXCEPT !.properties =
                    MapInsert(@, r.val.name, r.val)],
                i + 1)

generate_struct(s, d, definition_path, name, object_schema) ==
    generate_struct_properties(s, d,
        Append(definition_path, name_to_struct_name(definition_path, name)),
        name, object_schema,
        StructDefinition(name_to_struct_name(definition_path, name),
                         SerdeModules),
        1)

\* Ok(property_type_definition) => Ok(PropertyDefinition {..}), Err(err) => Err(err)
property_definition(definition_path, property_name, required, r) ==
    CASE r.st = "ok" ->
            Ok([type_name |-> r.val.name,
                module |-> r.val.module,
                name |-> name_to_property_name(definition_path, property_name),
                real_name |-> property_name,
                required |-> required], r.s)
      [] OTHER -> r

get_or_create_property(s, d, definition_path, property_name, property_ref, required) ==
    CASE ~resolve(spec, property_ref).ok -> Err("Failed to resolve", s)
      [] ~get_object_or_ref_struct_name(definition_path, property_ref).ok ->
            Err("Unable to determine property name", s)
      [] OTHER ->
            property_definition(definition_path, property_name, required,
                get_type_from_schema(s, d,
                    get_object_or_ref_struct_name(definition_path,
                                                  property_ref).val[1],
                    resolve(spec, property_ref).val,
                    Some(get_object_or_ref_struct_name(definition_path,
                                                       property_ref).val[2])))

\* A database in which get never finds the hull: every reference to a name
\* creates the object again.
object_in_database_Never(db, struct_name) == FALSE

\* object_database.get(struct_name) finds an entry.
object_in_database(db, struct_name) == struct_name \in DOMAIN db

\* What get_or_create_object does with the result of generate_object: the
\* created object replaces the hull under the object's own name.
created_object(struct_name, r) ==
    CASE r.st = "overflow" -> r
      [] r.st = "ok" ->
            Ok(r.val,
               LogReturn(DbInsert(r.s, get_object_name(r.val), r.val),
                         struct_name, "created", "ok", r.val))
      [] OTHER ->
            Err("Failed to generate object",
                LogReturn(r.s, struct_name, "created", "err",
                          r.s.db[struct_name]))

\* A get_or_create_object whose hull does not carry the name it is stored
\* under.
get_or_create_struct_UnnamedHull(s, d, definition_path, struct_name, property_ref) ==
    CASE object_in_database(s.db, struct_name) ->
            Ok(s.db[struct_name],
               LogReturn(s, struct_name, "found", "ok", s.db[struct_name]))
      [] OTHER ->
            created_object(struct_name,
                generate_object(
                    DbInsert(s, struct_name, StructDefinition("", <<>>)),
                    d + 1, definition_path, struct_name, property_ref))

\* get_or_create_object once struct_name is computed.
get_or_create_struct(s, d, definition_path, struct_name, property_ref) ==
    CASE object_in_database(s.db, struct_name) ->
            Ok(s.db[struct_name],
               LogReturn(s, struct_name, "found", "ok", s.db[struct_name]))
      [] OTHER ->
            created_object(struct_name,
                generate_object(
                    DbInsert(s, struct_name, StructDefinition(struct_name, <<>>)),
                    d + 1, definition_path, struct_name, property_ref))

get_or_create_object(s, d, definition_path, name, property_ref) ==
    get_or_create_struct(s, d, definition_path,
        name_to_struct_name(definition_path, name), property_ref)

\* The reference to the object get_or_create_object returned.
object_type_of(r) ==
    CASE r.st = "ok" -> Ok(ObjectType(get_object_name(r.val)), r.s)
      [] OTHER -> r

\* The return of get_type_from_schema, recorded with what it returns.
type_returned(s, object_schema, object_variable_fallback_name, r) ==
    CASE r.st = "overflow" -> r
      [] OTHER ->
            [r EXCEPT !.s = LogType(r.s, object_schema,
                                    object_variable_fallback_name,
                                    r.st, r.val, r.s.db = s.db)]

\* A call that finds the stack exhausted aborts the process.
get_type_from_schema(s, d, definition_path, object_schema, object_variable_fallback_name) ==
    CASE d >= MaxDepth -> Overflow(s)
      [] OTHER ->
            type_returned(s, object_schema, object_variable_fallback_name,
                CASE IsSome(object_schema.schema_type) ->
                        get_type_from_schema_type(s, d + 1, definition_path,
                            Unwrap(object_schema.schema_type), object_schema,
                            object_variable_fallback_name)
                  [] Len(object_schema.any_of) > 0 ->
                        get_type_from_any_type(s, d + 1, definition_path,
                            object_schema, object_variable_fallback_name)
                  [] ~IsSome(object_variable_fallback_name) ->
                        Err("Cannot create empty object without name", s)
                  [] OTHER ->
                        object_type_of(
                            get_or_create_object(s, d + 1, definition_path,
                                Unwrap(object_variable_fallback_name),
                                object_schema)))

get_type_from_any_type(s, d, definition_path, object_schema, object_variable_fallback_name) ==
    CASE ~IsSome(object_schema.title) /\ ~IsSome(object_variable_fallback_name) ->
            Err("Cannot fetch type because no title or title_fallback was given", s)
      [] OTHER ->
            object_type_of(
                get_or_create_object(s, d, definition_path,
                    IF IsSome(object_schema.title)
                    THEN name_to_struct_name(definition_path,
                                             Unwrap(object_schema.title))
                    ELSE Unwrap(object_variable_fallback_name),
                    object_schema))

\* A resolver that answers an array with the type of its items.
vec_of_Item(type_definition) == type_definition

\* type_definition.name = format!("Vec<{}>", type_definition.name)
vec_of(type_definition) ==
    [type_definition EXCEPT !.name = "Vec<" \o @ \o ">"]

\* Ok(mut type_definition) => Ok(Vec<..>), Err(err) => Err(err)
array_of(r) ==
    CASE r.st = "ok" -> Ok(vec_of(r.val), r.s)
      [] OTHER -> r

\* (item_type_definition_path, item_type_name) of an array schema.
item_type_naming(definition_path, object_schema) ==
    get_object_or_ref_struct_name(definition_path, Unwrap(object_schema.items))

get_type_from_schema_type(s, d, definition_path, schema_type, object_schema, object_variable_fallback_name) ==
    CASE ~IsSingle(schema_type) -> Err("MultiType is not supported", s)
      [] ~IsSome(object_schema.title) /\ ~IsSome(object_variable_fallback_name) ->
            Err("Cannot fetch type because no title or title_fallback was given", s)
      [] schema_type.single = "Boolean" -> Ok(TypeDefinition("bool", None), s)
      [] schema_type.single = "String" -> Ok(TypeDefinition("String", None), s)
      [] schema_type.single = "Number" -> Ok(TypeDefinition("f64", None), s)
      [] schema_type.single = "Integer" -> Ok(TypeDefinition("i32", None), s)
      [] schema_type.single = "Array" /\ ~IsSome(object_schema.items) ->
            Err("Array has no item type", s)
      [] schema_type.single = "Array"
            /\ ~item_type_naming(definition_path, object_schema).ok ->
            Err("Unable to determine ArrayItem type name", s)
      [] schema_type.single = "Array"
            /\ ~resolve(spec, Unwrap(object_schema.items)).ok ->
            Err("Failed to resolve ArrayItem", s)
      [] schema_type.single = "Array" ->
            array_of(
                get_type_from_schema(s, d,
                    item_type_naming(definition_path, object_schema).val[1],
                    resolve(spec, Unwrap(object_schema.items)).val,
                    Some(item_type_naming(definition_path, object_schema).val[2])))
      [] schema_type.single = "Object" ->
            object_type_of(
                get_or_create_object(s, d, definition_path,
                    IF IsSome(object_schema.title)
                    THEN Unwrap(object_schema.title)
                    ELSE Unwrap(object_variable_fallback_name),
                    object_schema))
      [] OTHER -> Err("Type not supported", s)

----------------------------------------------------------------------------
(* The component walker (parser/component.rs) *)

EmptyStore(db) == [db |-> db, log |-> <<>>]

\* A walker that names every component after its key, whatever its title.
component_object_name_FromKey(component_name, resolved_object) ==
    name_to_struct_name(get_components_base_path, component_name)

\* The struct name generate_components gives a component: from the title of
\* the resolved schema when it has one, else from the component's key.
component_object_name(component_name, resolved_object) ==
    IF IsSome(resolved_object.title)
    THEN name_to_struct_name(get_components_base_path,
                             Unwrap(resolved_object.title))
    ELSE name_to_struct_name(get_components_base_path, component_name)

\* A walker that never finds a name taken.
contains_key_Never(db, key) == FALSE

\* object_database.contains_key(key)
contains_key(db, key) == key \in DOMAIN db

\* A walker that gives up at the first component it cannot build.
after_component_Abort(status) ==
    IF status \in {"unresolved", "error"} THEN "failed" ELSE "components"

\* Where generate_components goes on after an iteration: every arm of the loop
\* body ends in continue or falls through, none returns.
after_component(status) == "components"

ComponentOutcome(component_name, status, name, store) ==
    [unit |-> component_name, status |-> status, name |-> name, store |-> store]

\* One iteration of the loop of generate_components over components.schemas.
generate_component(db, component_name, object_ref) ==
    Let(EmptyStore(db), LAMBDA s :
        IF component_ignored(component_name)
        THEN ComponentOutcome(component_name, "ignored", "", s)
        ELSE
        Let(resolve(spec, object_ref), LAMBDA resolved_object :
            IF ~resolved_object.ok
            THEN ComponentOutcome(component_name, "unresolved", "", s)
            ELSE
            Let(component_object_name(component_name, resolved_object.val),
            LAMBDA object_name :
                IF contains_key(db, object_name)
                THEN ComponentOutcome(component_name, "skipped", object_name, s)
                ELSE
                Let(generate_object(s, 0, get_components_base_path,
                                         object_name, resolved_object.val),
                LAMBDA r :
                    IF r.st = "overflow"
                    THEN ComponentOutcome(component_name, "overflow",
                                          object_name, r.s)
                    ELSE IF r.st = "err"
                    THEN ComponentOutcome(component_name, "error",
                                          object_name, r.s)
                    ELSE IF contains_key(r.s.db, get_object_name(r.val))
                    THEN ComponentOutcome(component_name, "present",
                                          get_object_name(r.val), r.s)
                    ELSE ComponentOutcome(component_name, "inserted",
                             get_object_name(r.val),
                             DbInsert(r.s, get_object_name(r.val), r.val))))))

----------------------------------------------------------------------------
(* The operation resolver (generator/rust_reqwest_async/path) *)

MediaType(schema) == [schema |-> schema]

ApplicationJson(type_definition) ==
    [kind |-> "ApplicationJson", type_definition |-> type_definition]

TextPlain == [kind |-> "TextPlain"]

\* StatusCode::from_bytes followed by StatusCode::canonical_reason.
canonical_reason(response_key) ==
    CASE response_key = "200" -> [ok |-> TRUE, val |-> "OK"]
      [] response_key = "404" -> [ok |-> TRUE, val |-> "Not Found"]
      [] OTHER -> [ok |-> FALSE, val |-> "Failed to parse status code"]

status_code_to_canonical_name(response_key) ==
    IF ~canonical_reason(response_key).ok
    THEN canonical_reason(response_key)
    ELSE IF response_key \in DOMAIN config.name_mapping.status_code_mapping
    THEN [ok |-> TRUE, val |-> config.name_mapping.status_code_mapping[response_key]]
    ELSE canonical_reason(response_key)

\* resolve on a parameter or a request body: the documents of the model declare
\* no components.parameters and no components.requestBodies, so a reference
\* to one does not resolve.
resolve_inline(object_or_reference) ==
    IF IsRef(object_or_reference)
    THEN [ok |-> FALSE, val |-> "Unresolvable"]
    ELSE [ok |-> TRUE, val |-> object_or_reference.object]

parse_json_data(s, definition_path, new_object_name, json_schema_object_or_ref) ==
    Let(resolve(spec, json_schema_object_or_ref), LAMBDA schema_object :
        IF ~schema_object.ok THEN Err("Failed to resolve json response", s)
        ELSE IF is_object_empty(schema_object.val) THEN Ok(None, s)
        ELSE IF IsRef(json_schema_object_or_ref)
        THEN Let(get_object_or_ref_struct_name(definition_path,
                                               json_schema_object_or_ref),
             LAMBDA naming :
                 IF naming.ok
                 THEN Ok(Some(ObjectType(naming.val[2])), s)
                 ELSE Err("Unable to determine response type ref name", s))
        ELSE Let(get_type_from_schema(s, 0, definition_path,
                     json_schema_object_or_ref.object, Some(new_object_name)),
             LAMBDA r : IF r.st = "ok" THEN Ok(Some(r.val), r.s) ELSE r))

generate_json_content(s, definition_path, json_media_type, content_object_name) ==
    IF ~IsSome(json_media_type.schema)
    THEN Err("Failed to parse response json data", s)
    ELSE Let(parse_json_data(s, definition_path,
                 name_to_struct_name(definition_path, content_object_name),
                 Unwrap(json_media_type.schema)),
         LAMBDA r : IF r.st = "ok" THEN Ok(ApplicationJson(r.val), r.s) ELSE r)

generate_content_type(s, definition_path, content_type, media_type, content_object_name) ==
    CASE content_type = "text/plain" -> Ok(TextPlain, s)
      [] content_type = "application/json" ->
            generate_json_content(s, definition_path, media_type,
                                  content_object_name \o "Json")
      [] OTHER -> Err("Content-Type is not supported", s)

\* The loop over the content map, from entry i on.
RECURSIVE generated_content_types_from_content_map(_, _, _, _, _, _)
generated_content_types_from_content_map(s, definition_path, content, content_object_name, content_map, i) ==
    IF i > Len(content) THEN Ok(content_map, s)
    ELSE
    Let(generate_content_type(s, definition_path, content[i].name,
                              content[i].value, content_object_name),
    LAMBDA r :
        IF r.st = "overflow" THEN r
        ELSE generated_content_types_from_content_map(r.s, definition_path,
                 content, content_object_name,
                 IF r.st = "ok" /\ content[i].name \notin DOMAIN content_map
                 THEN MapInsert(content_map, content[i].name, r.val)
                 ELSE content_map,
                 i + 1))

generate_request_body(s, definition_path, request_body, function_name) ==
    Let(resolve_inline(request_body), LAMBDA request :
        IF ~request.ok THEN Err("Failed to resolve request body", s)
        ELSE Let(generated_content_types_from_content_map(s, definition_path,
                     request.val.content, function_name \o "RequestBody",
                     EmptyMap, 1),
             LAMBDA r :
                 IF r.st = "ok" THEN Ok([content |-> r.val], r.s) ELSE r))

\* The loop over the responses, from response i on.
RECURSIVE generate_responses(_, _, _, _, _, _)
generate_responses(s, definition_path, responses, function_name, response_entities, i) ==
    IF i > Len(responses) THEN Ok(response_entities, s)
    ELSE IF responses[i].name = "default"
    THEN generate_responses(s, definition_path, responses, function_name,
                            response_entities, i + 1)
    ELSE
    Let(status_code_to_canonical_name(responses[i].name),
    LAMBDA canonical_status_code :
        IF ~canonical_status_code.ok THEN Err(canonical_status_code.val, s)
        ELSE
        Let(generated_content_types_from_content_map(s, definition_path,
                responses[i].value.content,
                function_name \o canonical_status_code.val, EmptyMap, 1),
        LAMBDA r :
            IF r.st # "ok" THEN r
            ELSE generate_responses(r.s, definition_path, responses,
                     function_name,
                     MapInsert(response_entities, responses[i].name,
                         [canonical_status_code |-> canonical_status_code.val,
                          content |-> r.val]),
                     i + 1)))

\* The loop over the operation's parameters, from parameter i on.
RECURSIVE generate_query_parameters(_, _, _, _, _)
generate_query_parameters(s, parameters, query_parameters_definition_path, query_struct, i) ==
    IF i > Len(parameters) THEN Ok(query_struct, s)
    ELSE
    Let(resolve_inline(parameters[i]), LAMBDA parameter :
        IF ~parameter.ok THEN Err("Failed to resolve parameter", s)
        ELSE IF parameter.val.location # "Query"
        THEN generate_query_parameters(s, parameters,
                 query_parameters_definition_path, query_struct, i + 1)
        ELSE IF ~IsSome(parameter.val.schema)
        THEN Err("Parameter has no schema", s)
        ELSE
        Let(resolve(spec, Unwrap(parameter.val.schema)), LAMBDA object_schema :
            IF ~object_schema.ok THEN Err("Failed to resolve parameter", s)
            ELSE
            Let(get_type_from_schema(s, 0, query_parameters_definition_path,
                    object_schema.val, Some(parameter.val.name)),
            LAMBDA parameter_type :
                IF parameter_type.st # "ok" THEN parameter_type
                ELSE generate_query_parameters(parameter_type.s, parameters,
                         query_parameters_definition_path,
                         [query_struct EXCEPT !.properties =
                             MapInsert(@,
                                 name_to_property_name(
                                     query_parameters_definition_path,
                                     parameter.val.name),
                                 [name |-> name_to_property_name(
                                              query_parameters_definition_path,
                                              parameter.val.name),
                                  module |-> parameter_type.val.module,
                                  real_name |-> parameter.val.name,
                                  required |-> IF IsSome(parameter.val.required)
                                               THEN Unwrap(parameter.val.required)
                                               ELSE FALSE,
                                  type_name |-> parameter_type.val.name])],
                         i + 1))))

generate_query_parameter_code(s, operation, definition_path, function_name) ==
    Let(StructDefinition(
            name_to_struct_name(definition_path,
                                function_name \o "QueryParameters"), <<>>),
    LAMBDA query_struct :
        generate_query_parameters(s, operation.parameters,
            Append(definition_path, query_struct.name), query_struct, 1))

\* The keys of a HashMap.
Keys(map) == DOMAIN map

\* path.split("/")
split(path) ==
    CASE path = "/test" -> <<"", "test">>
      [] path = "/other" -> <<"", "other">>
      [] path = "/pets/{id}" -> <<"", "pets", "{id}">>
      [] path = "/pets/{petId}/toys/{id}" -> <<"", "pets", "{petId}", "toys", "{id}">>
      [] OTHER -> <<path>>

\* path_component.starts_with("{") && path_component.ends_with("}")
is_path_parameter(path_component) == path_component \in {"{id}", "{petId}"}

\* path_component.replace("{", "").replace("}", "")
replace_braces(path_component) ==
    CASE path_component = "{id}" -> "id"
      [] path_component = "{petId}" -> "petId"
      [] OTHER -> path_component

\* collect::<HashMap<..>>() of a sequence of (key, value): a later pair
\* replaces an earlier one with the same key.
RECURSIVE collect(_)
collect(pairs) ==
    IF pairs = <<>> THEN EmptyMap
    ELSE MapInsert(collect(Front(pairs)), Last(pairs)[1], Last(pairs)[2])

\* The path components that are parameters, braces removed, in path order.
path_parameter_names(path) ==
    [n \in 1..Len(SelectSeq(split(path), is_path_parameter)) |->
        replace_braces(SelectSeq(split(path), is_path_parameter)[n])]

generate_path_parameter_code(definition_path, function_name, path) ==
    LET path_parameters_struct_name ==
            name_to_struct_name(definition_path,
                                function_name \o "PathParameters")
        path_parameters_definition_path ==
            Append(definition_path, path_parameters_struct_name)
        path_parameters_ordered ==
            [n \in 1..Len(path_parameter_names(path)) |->
                [module |-> None,
                 name |-> name_to_property_name(path_parameters_definition_path,
                                                path_parameter_names(path)[n]),
                 real_name |-> path_parameter_names(path)[n],
                 required |-> TRUE,
                 type_name |-> "&str"]]
    IN  [parameters_struct_variable_name |->
            name_to_property_name(definition_path, "path_parameters"),
         parameters_struct |->
            [StructDefinition(path_parameters_struct_name, <<>>)
             EXCEPT !.properties =
                collect([n \in 1..Len(path_parameters_ordered) |->
                    <<path_parameters_ordered[n].name,
                      [path_parameters_ordered[n] EXCEPT !.type_name = "String"]>>])],
         path_format_string |->
            [n \in 1..Len(split(path)) |->
                IF is_path_parameter(split(path)[n]) THEN "{}"
                ELSE split(path)[n]]]

\* Where generate_paths goes on after an operation: the error of an operation
\* is reported and the loop continues.
after_operation(status) == "paths"

OperationOutcome(operation, status, function_name, store, response_entities, query_struct, request_body) ==
    [unit |-> operation.path, status |-> status, name |-> function_name,
     store |-> store, response_entities |-> response_entities,
     query_struct |-> query_struct, request_body |-> request_body]

OperationFailed(operation, r, function_name) ==
    OperationOutcome(operation, IF r.st = "overflow" THEN "overflow" ELSE "error",
                     function_name, r.s, EmptyMap, None, None)

\* The outcome of generate_operation with the stages it went through before
\* it returned.
Staged(outcome, stages) == outcome @@ [stages |-> stages]

\* generate_operation: the stages that resolve types, in the order they run;
\* the template is filled in from their results (operation_template).
generate_operation(db, operation) ==
    Let(EmptyStore(db), LAMBDA s :
    IF ~IsSome(operation.operation_id)
    THEN Staged(OperationFailed(operation, Err("No operation_id found", s), ""),
                <<>>)
    ELSE
    Let(name_to_module_name(Unwrap(operation.operation_id)),
    LAMBDA function_name :
    Let(generate_responses(s, <<operation.path>>, operation.responses,
                           function_name, EmptyMap, 1),
    LAMBDA response_entities :
        IF response_entities.st # "ok"
        THEN Staged(OperationFailed(operation, response_entities, function_name),
                    <<"response_entities">>)
        ELSE
        Let(generate_path_parameter_code(<<operation.path>>, function_name,
                                         operation.path),
        LAMBDA path_parameter_code :
        Let(generate_query_parameter_code(response_entities.s, operation,
                                          <<operation.path>>, function_name),
        LAMBDA query_parameter_code :
            IF query_parameter_code.st # "ok"
            THEN Staged(OperationFailed(operation, query_parameter_code,
                                        function_name),
                        <<"response_entities", "path_parameters",
                          "query_parameters">>)
            ELSE IF ~IsSome(operation.request_body)
            THEN Staged(OperationOutcome(operation, "generated", function_name,
                            query_parameter_code.s, response_entities.val,
                            Some(query_parameter_code.val), None),
                        <<"response_entities", "path_parameters",
                          "query_parameters", "request_body", "emission">>)
            ELSE
            Let(generate_request_body(query_parameter_code.s,
                    <<operation.path>>, Unwrap(operation.request_body),
                    function_name),
            LAMBDA request_body :
                IF request_body.st # "ok"
                THEN Staged(OperationFailed(operation, request_body,
                                            function_name),
                            <<"response_entities", "path_parameters",
                              "query_parameters", "request_body">>)
                ELSE Staged(OperationOutcome(operation, "generated",
                                function_name, request_body.s,
                                response_entities.val,
                                Some(query_parameter_code.val),
                                Some(request_body.val)),
                            <<"response_entities", "path_parameters",
                              "query_parameters", "request_body",
                              "emission">>)))))))

\* path_parameter_arguments: the properties of the path struct as its HashMap
\* happens to iterate its keys.
path_parameter_arguments(path_parameter_code, order) ==
    [n \in 1..Len(order) |->
        path_parameter_code.parameters_struct_variable_name \o "." \o order[n]]

\* map.len()
Size(map) == Cardinality(DOMAIN map)

\* A generator that names every variant of a value enum Json.
media_type_enum_name_Json(definition_path, transfer_media_type) ==
    name_to_struct_name(definition_path, "Json")

media_type_enum_name(definition_path, transfer_media_type) ==
    name_to_struct_name(definition_path,
        IF transfer_media_type.kind = "ApplicationJson" THEN "Json" ELSE "Text")

\* The EnumValue of a transfer media type: its JSON type, a type without name
\* for an empty JSON body, String for plain text.
media_type_enum_value(name, transfer_media_type) ==
    [name |-> name,
     value_type |->
        CASE transfer_media_type.kind = "TextPlain" ->
                TypeDefinition(oas3_type_to_string("String"), None)
          [] IsSome(transfer_media_type.type_definition) ->
                Unwrap(transfer_media_type.type_definition)
          [] OTHER -> TypeDefinition("", None)]

\* response_enum_name and response_enum_definition_path of generate_operation.
response_type_name(definition_path, function_name) ==
    name_to_struct_name(definition_path, function_name \o "ResponseType")

response_enum_definition_path(definition_path, function_name) ==
    Append(definition_path, response_type_name(definition_path, function_name))

\* The enum generated for one response with two or more content types. The
\* values are keyed by their names; the configurations of the model map no
\* two media types to one name.
response_value_enum(definition_path, function_name, entity) ==
    LET response_code_enum_name ==
            name_to_struct_name(
                response_enum_definition_path(definition_path, function_name),
                entity.canonical_status_code \o "Value")
        enum_definition_path == Append(definition_path, response_code_enum_name)
        value_name(content_type) ==
            media_type_enum_name(enum_definition_path, entity.content[content_type])
    IN  [EnumDefinition(response_code_enum_name, <<>>) EXCEPT !.values =
            [name \in {value_name(content_type) :
                          content_type \in Keys(entity.content)} |->
                media_type_enum_value(name,
                    entity.content[CHOOSE content_type \in Keys(entity.content) :
                                       value_name(content_type) = name])]]

\* response_enums before the response enum itself is pushed: the enums of the
\* responses with two or more content types, by status code.
response_value_enums(definition_path, function_name, response_entities) ==
    [status_code \in {status_code \in Keys(response_entities) :
                         Size(response_entities[status_code].content) >= 2} |->
        response_value_enum(definition_path, function_name,
                            response_entities[status_code])]

\* The value of the response enum for one status: none for a response without
\* content, the content's own type for one content type, the name of the
\* response's value enum for more.
response_enum_value(definition_path, function_name, entity) ==
    LET response_enum_name ==
            name_to_struct_name(
                response_enum_definition_path(definition_path, function_name),
                entity.canonical_status_code)
    IN  CASE Size(entity.content) = 0 -> None
          [] Size(entity.content) = 1 ->
                Some(media_type_enum_value(response_enum_name,
                        entity.content[CHOOSE content_type \in Keys(entity.content) :
                                           TRUE]))
          [] OTHER ->
                Some([name |-> response_enum_name,
                      value_type |->
                         TypeDefinition(
                             name_to_struct_name(
                                 response_enum_definition_path(definition_path,
                                                               function_name),
                                 entity.canonical_status_code \o "Value"),
                             None)])

\* The response enum of the operation: a value per status that has one, and
\* UndefinedResponse.
response_enum(definition_path, function_name, response_entities) ==
    [EnumDefinition(response_type_name(definition_path, function_name), <<>>)
     EXCEPT !.values =
        [status_code \in
            {status_code \in Keys(response_entities) :
                IsSome(response_enum_value(definition_path, function_name,
                                           response_entities[status_code]))}
            \cup {"UndefinedResponse"} |->
         IF status_code = "UndefinedResponse"
         THEN [name |-> "UndefinedResponse",
               value_type |-> TypeDefinition("reqwest::Response",
                                  Some(ModuleInfo("reqwest", "")))]
         ELSE Unwrap(response_enum_value(definition_path, function_name,
                                         response_entities[status_code]))]]

FunctionParameter(name, type_name, reference) ==
    [name |-> name, type_name |-> type_name, reference |-> reference]

ClientAndServer ==
    <<FunctionParameter("client", "reqwest::Client", TRUE),
      FunctionParameter("server", "str", TRUE)>>

\* The function parameter that carries the content of a request body, if any.
content_parameter(definition_path, transfer_media_type) ==
    CASE transfer_media_type.kind = "TextPlain" ->
            <<FunctionParameter(name_to_property_name(definition_path, "content"),
                                oas3_type_to_string("String"), TRUE)>>
      [] IsSome(transfer_media_type.type_definition) ->
            <<FunctionParameter(name_to_property_name(definition_path, "content"),
                                Unwrap(transfer_media_type.type_definition).name,
                                FALSE)>>
      [] OTHER -> <<>>

\* The parameter for the path struct, when the path has parameters.
path_struct_parameter(path_parameter_code) ==
    IF Size(path_parameter_code.parameters_struct.properties) > 0
    THEN <<FunctionParameter(path_parameter_code.parameters_struct_variable_name,
                             path_parameter_code.parameters_struct.name, FALSE)>>
    ELSE <<>>

\* The parameter for the query struct, when the operation has query parameters.
query_struct_parameter(definition_path, query_struct) ==
    IF Size(query_struct.properties) > 0
    THEN <<FunctionParameter(
               name_to_property_name(definition_path, "query_parameters"),
               query_struct.name, FALSE)>>
    ELSE <<>>

request_media_type(transfer_media_type) ==
    IF transfer_media_type.kind = "ApplicationJson"
    THEN "application/json" ELSE "text/plain"

\* The functions generated for a request body with two or more content
\* types, by content type.
generate_multi_request_type_functions(definition_path, function_name, path_parameter_code, query_struct, request_entity) ==
    IF Size(request_entity.content) < 2 THEN EmptyMap
    ELSE [content_type \in Keys(request_entity.content) |->
            [function_name |->
                name_to_property_name(definition_path,
                    function_name \o
                    media_type_enum_name(definition_path,
                                         request_entity.content[content_type])),
             function_parameters |->
                ClientAndServer
                \o path_struct_parameter(path_parameter_code)
                \o query_struct_parameter(definition_path, query_struct)
                \o content_parameter(definition_path,
                                     request_entity.content[content_type]),
             request_content_variable_name |->
                IF content_parameter(definition_path,
                       request_entity.content[content_type]) = <<>>
                THEN None
                ELSE Some(name_to_property_name(definition_path, "content")),
             request_media_type |->
                request_media_type(request_entity.content[content_type])]]

content_types_count_Single(request_body) == IF IsSome(request_body) THEN 1 ELSE 0

\* request_body_content_types_count
content_types_count(request_body) ==
    IF IsSome(request_body) THEN Size(Unwrap(request_body).content) ELSE 0

\* function_parameters of the operation's main function.
function_parameters(definition_path, path_parameter_code, query_struct, request_body) ==
    IF content_types_count(request_body) > 1
    THEN <<FunctionParameter("request_builder", "reqwest::RequestBuilder", FALSE)>>
         \o query_struct_parameter(definition_path, query_struct)
    ELSE ClientAndServer
         \o (IF content_types_count(request_body) = 1
             THEN content_parameter(definition_path,
                      Unwrap(request_body).content[
                          CHOOSE content_type \in Keys(Unwrap(request_body).content) :
                              TRUE])
             ELSE <<>>)
         \o path_struct_parameter(path_parameter_code)
         \o query_struct_parameter(definition_path, query_struct)

\* The type names the resolver gives the arrays of the model's documents.
VecTypeNames ==
    {"Vec<" \o name \o ">" :
        name \in {"String", "i32", "f64", "bool", "A", "Alpha", "Cat", "CatModel",
                  "Filter"}}

\* type_name.starts_with("Vec<")
starts_with_vec(type_name) == type_name \in VecTypeNames

\* unroll_query_parameters_code: the real names of the parameters pushed with
\* the vector itself, of those pushed element by element, and of those pushed
\* when present, with or without iteration over their elements.
unroll_query_parameters_code(query_struct) ==
    LET properties == {query_struct.properties[key] :
                          key \in Keys(query_struct.properties)}
    IN  [initial |->
            {property.real_name : property \in
                {property \in properties :
                    property.required /\ ~starts_with_vec(property.type_name)}},
         for_each |->
            {property.real_name : property \in
                {property \in properties :
                    property.required /\ starts_with_vec(property.type_name)}},
         if_some |->
            {property.real_name : property \in
                {property \in properties :
                    ~property.required /\ ~starts_with_vec(property.type_name)}},
         if_some_for_each |->
            {property.real_name : property \in
                {property \in properties :
                    ~property.required /\ starts_with_vec(property.type_name)}}]

\* What generate_operation hands to its template, from the entities it has
\* resolved; order is the order in which the path struct iterates its keys.
HttpRequestTemplate(operation, function_name, response_entities, query_struct, request_body, order) ==
    [response_type_name |-> response_type_name(<<operation.path>>, function_name),
     response_enum |-> response_enum(<<operation.path>>, function_name,
                                     response_entities),
     response_value_enums |-> response_value_enums(<<operation.path>>,
                                  function_name, response_entities),
     function_visibility |->
        IF content_types_count(request_body) > 1 THEN "" ELSE "pub",
     function_parameters |->
        function_parameters(<<operation.path>>,
            generate_path_parameter_code(<<operation.path>>, function_name,
                                         operation.path),
            query_struct, request_body),
     parameters_struct |->
        generate_path_parameter_code(<<operation.path>>, function_name,
                                     operation.path).parameters_struct,
     path_format_string |->
        generate_path_parameter_code(<<operation.path>>, function_name,
                                     operation.path).path_format_string,
     path_parameter_arguments |->
        path_parameter_arguments(
            generate_path_parameter_code(<<operation.path>>, function_name,
                                         operation.path), order),
     unroll_query_parameters_code |-> unroll_query_parameters_code(query_struct),
     multi_request_type_functions |->
        IF IsSome(request_body)
        THEN generate_multi_request_type_functions(<<operation.path>>,
                 function_name,
                 generate_path_parameter_code(<<operation.path>>, function_name,
                                              operation.path),
                 query_struct, Unwrap(request_body))
        ELSE EmptyMap]

\* The template of an operation that was generated.
\* A generator that renders a template whatever the outcome of the stages.
operation_template_Emitted(operation, outcome, order) ==
    Some([function_name |-> outcome.name])

operation_template(operation, outcome, order) ==
    IF outcome.status = "generated"
    THEN Some(HttpRequestTemplate(operation, outcome.name,
                  outcome.response_entities, Unwrap(outcome.query_struct),
                  outcome.request_body, order))
    ELSE None

\* The keys of the path struct of an operation.
path_parameter_keys(operation) ==
    IF IsSome(operation.operation_id)
    THEN Keys(generate_path_parameter_code(<<operation.path>>,
                  name_to_module_name(Unwrap(operation.operation_id)),
                  operation.path).parameters_struct.properties)
    ELSE {}

----------------------------------------------------------------------------
(* WebSocket operations (path/websocket_request.rs) *)

\* The loop over the operation's parameters, from parameter i on. The type of
\* a parameter whose schema is a reference is resolved with an empty
\* definition path.
RECURSIVE websocket_query_parameters(_, _, _, _, _)
websocket_query_parameters(s, parameters, query_operation_definition_path, query_struct, i) ==
    IF i > Len(parameters) THEN Ok(query_struct, s)
    ELSE
    Let(resolve_inline(parameters[i]), LAMBDA parameter :
        IF ~parameter.ok THEN Err("Failed to resolve parameter", s)
        ELSE IF parameter.val.location # "Query"
        THEN websocket_query_parameters(s, parameters,
                 query_operation_definition_path, query_struct, i + 1)
        ELSE IF ~IsSome(parameter.val.schema)
        THEN Err("Parameter has no schema", s)
        ELSE
        Let(resolve(spec, Unwrap(parameter.val.schema)), LAMBDA object_schema :
            IF ~object_schema.ok THEN Err("Failed to resolve parameter", s)
            ELSE
            Let(get_type_from_schema(s, 0,
                    IF IsRef(Unwrap(parameter.val.schema)) THEN <<>>
                    ELSE query_operation_definition_path,
                    object_schema.val, Some(parameter.val.name)),
            LAMBDA parameter_type :
                IF parameter_type.st # "ok" THEN parameter_type
                ELSE websocket_query_parameters(parameter_type.s, parameters,
                         query_operation_definition_path,
                         [query_struct EXCEPT !.properties =
                             MapInsert(@,
                                 name_to_property_name(
                                     query_operation_definition_path,
                                     parameter.val.name),
                                 [name |-> name_to_property_name(
                                              query_operation_definition_path,
                                              parameter.val.name),
                                  module |-> parameter_type.val.module,
                                  real_name |-> parameter.val.name,
                                  required |-> IF IsSome(parameter.val.required)
                                               THEN Unwrap(parameter.val.required)
                                               ELSE FALSE,
                                  type_name |-> parameter_type.val.name])],
                         i + 1))))

\* The message type of the socket: of the 200 response, the content that its
\* HashMap iterates first.
socket_transferred_media_type(response_entities, first) ==
    response_entities["200"].content[first]

\* The content types the loop over the 200 response's content can meet first.
first_content_types(response_entities) ==
    IF "200" \in DOMAIN response_entities
       /\ Keys(response_entities["200"].content) # {}
    THEN Keys(response_entities["200"].content)
    ELSE {None}

socket_transfer_type_definition(transfer_media_type) ==
    IF transfer_media_type.kind = "TextPlain"
    THEN TypeDefinition(oas3_type_to_string("String"), None)
    ELSE Unwrap(transfer_media_type.type_definition)

\* The responses of a WebSocket operation and its message type, or the error
\* that ends generate_operation before the parameters are looked at.
websocket_responses(s, operation, function_name, first) ==
    Let(generate_responses(s, <<operation.path>>, operation.responses,
                           function_name, EmptyMap, 1),
    LAMBDA response_entities :
        CASE response_entities.st # "ok" -> response_entities
          [] "200" \notin DOMAIN response_entities.val ->
                Err("No OK response found", response_entities.s)
          [] Keys(response_entities.val["200"].content) = {} ->
                Err("Transfer type missing", response_entities.s)
          [] /\ socket_transferred_media_type(response_entities.val, first).kind
                    = "ApplicationJson"
             /\ ~IsSome(socket_transferred_media_type(response_entities.val,
                                                      first).type_definition) ->
                Err("Websocket with empty response body is not supported",
                    response_entities.s)
          [] OTHER -> response_entities)

\* generate_operation of a WebSocket operation: the stages that resolve types,
\* in the order they run.
websocket_generate_operation(db, operation, first) ==
    Let(EmptyStore(db), LAMBDA s :
    IF ~IsSome(operation.operation_id)
    THEN OperationFailed(operation, Err("No operation_id found", s), "")
    ELSE
    Let(name_to_module_name(Unwrap(operation.operation_id)),
    LAMBDA function_name :
    Let(websocket_responses(s, operation, function_name, first),
    LAMBDA response_entities :
        IF response_entities.st # "ok"
        THEN OperationFailed(operation, response_entities, function_name)
        ELSE
        Let(websocket_query_parameters(response_entities.s,
                operation.parameters,
                <<operation.path,
                  name_to_struct_name(<<operation.path>>, function_name)
                      \o "QueryParameters">>,
                StructDefinition(
                    name_to_struct_name(<<operation.path>>, function_name)
                        \o "QueryParameters", <<>>), 1),
        LAMBDA query_struct :
            IF query_struct.st # "ok"
            THEN OperationFailed(operation, query_struct, function_name)
            ELSE IF ~IsSome(operation.request_body)
            THEN OperationOutcome(operation, "generated", function_name,
                     query_struct.s, response_entities.val,
                     Some(query_struct.val), None)
            ELSE
            Let(generate_request_body(query_struct.s, <<operation.path>>,
                    Unwrap(operation.request_body), function_name),
            LAMBDA request_body :
                IF request_body.st # "ok"
                THEN OperationFailed(operation, request_body, function_name)
                ELSE OperationOutcome(operation, "generated", function_name,
                         request_body.s, response_entities.val,
                         Some(query_struct.val),
                         Some(request_body.val)))))))

\* What generate_operation hands to the template of a WebSocket operation.
WebSocketRequestTemplate(operation, outcome, first) ==
    [socket_stream_struct_name |->
        name_to_struct_name(<<operation.path>>, outcome.name) \o "Stream",
     response_type_name |->
        socket_transfer_type_definition(
            socket_transferred_media_type(outcome.response_entities,
                                          first)).name,
     function_name |-> outcome.name,
     path_format_string |->
        [n \in 1..Len(split(operation.path)) |->
            IF is_path_parameter(split(operation.path)[n]) THEN "{}"
            ELSE split(operation.path)[n]],
     path_parameter_arguments |->
        [n \in 1..Len(path_parameter_names(operation.path)) |->
            name_to_property_name(<<operation.path>>,
                name_to_struct_name(<<operation.path>>, outcome.name)
                    \o "PathParameters")
            \o "." \o
            name_to_property_name(<<operation.path>>,
                name_to_property_name(
                    <<operation.path,
                      name_to_struct_name(<<operation.path>>, outcome.name)
                          \o "PathParameters">>,
                    path_parameter_names(operation.path)[n]))],
     query_parameters_mutable |->
        \E key \in Keys(Unwrap(outcome.query_struct).properties) :
            \/ ~Unwrap(outcome.query_struct).properties[key].required
            \/ starts_with_vec(
                   Unwrap(outcome.query_struct).properties[key].type_name)]

\* The template of a WebSocket operation that was generated.
websocket_template(operation, outcome, first) ==
    IF outcome.status = "generated"
    THEN Some(WebSocketRequestTemplate(operation, outcome, first))
    ELSE None

\* The content types the 200 response of the operation can be iterated from.
websocket_first_content_types(db, operation) ==
    IF IsSome(operation.operation_id)
       /\ generate_responses(EmptyStore(db), <<operation.path>>,
              operation.responses,
              name_to_module_name(Unwrap(operation.operation_id)),
              EmptyMap, 1).st = "ok"
    THEN first_content_types(
             generate_responses(EmptyStore(db), <<operation.path>>,
                 operation.responses,
                 name_to_module_name(Unwrap(operation.operation_id)),
                 EmptyMap, 1).val)
    ELSE {None}

----------------------------------------------------------------------------
(* Emission of the objects (types.rs, templates.rs, objects.rs) *)

\* The orders in which a HashMap with these keys may be iterated.
Orders(keys) ==
    {order \in [1..Cardinality(keys) -> keys] :
        \A i, j \in 1..Cardinality(keys) : i # j => order[i] # order[j]}

\* The text to_string appends for one property.
property_to_string(property, serializable) ==
    (IF property.name # property.real_name /\ serializable
     THEN <<"#[serde(alias = \"" \o property.real_name \o "\")]\n">>
     ELSE <<>>)
    \o
    (IF property.required
     THEN <<"pub " \o property.name \o ": " \o property.type_name \o ",\n">>
     ELSE <<"pub " \o property.name \o ": Option<" \o property.type_name
            \o ">,\n">>)

RECURSIVE properties_to_string(_, _, _, _)
properties_to_string(properties, order, serializable, i) ==
    IF i > Len(order) THEN <<>>
    ELSE property_to_string(properties[order[i]], serializable)
         \o properties_to_string(properties, order, serializable, i + 1)

\* StructDefinition::to_string, the properties iterated in the given order.
struct_to_string(struct_definition, serializable, order) ==
    (IF serializable
     THEN <<"#[derive(Serialize, Deserialize, Debug, Clone, PartialEq)]\n">>
     ELSE <<>>)
    \o <<"pub struct " \o struct_definition.name \o " {\n\n">>
    \o properties_to_string(struct_definition.properties, order, serializable, 1)
    \o <<"}">>

RECURSIVE enum_values_to_string(_, _, _)
enum_values_to_string(values, order, i) ==
    IF i > Len(order) THEN <<>>
    ELSE <<values[order[i]].name \o "(" \o values[order[i]].value_type.name
           \o "),\n">>
         \o enum_values_to_string(values, order, i + 1)

\* EnumDefinition::to_string, the values iterated in the given order.
enum_to_string(enum_definition, serializable, order) ==
    (IF serializable
     THEN <<"#[derive(Serialize, Deserialize, Debug, Clone, PartialEq)]\n">>
     ELSE <<>>)
    \o <<"pub enum " \o enum_definition.name \o " {\n\n">>
    \o enum_values_to_string(enum_definition.values, order, 1)
    \o <<"}">>

\* What the template of a primitive is given: its name and its type's name.
primitive_to_string(primitive_definition) ==
    <<primitive_definition.name, primitive_definition.primitive_type.name>>

\* The keys a definition's members are stored under.
member_keys(object_definition) ==
    CASE object_definition.kind = "Struct" -> DOMAIN object_definition.properties
      [] object_definition.kind = "Enum" -> DOMAIN object_definition.values
      [] OTHER -> {}

\* StructDefinition::get_required_modules: used_modules, then the modules of
\* the properties that have one, the properties iterated in the given order.
get_required_modules(struct_definition, order) ==
    struct_definition.used_modules
    \o [n \in 1..Len(SelectSeq(order, LAMBDA key :
                 IsSome(struct_definition.properties[key].module))) |->
          Unwrap(struct_definition.properties[
              SelectSeq(order, LAMBDA key :
                  IsSome(struct_definition.properties[key].module))[n]].module)]

\* The text of an object's file.
object_to_string(object_definition, order) ==
    CASE object_definition.kind = "Struct" ->
            struct_to_string(object_definition, TRUE, order)
      [] object_definition.kind = "Enum" ->
            enum_to_string(object_definition, TRUE, order)
      [] OTHER -> primitive_to_string(object_definition)

----------------------------------------------------------------------------
(* Input documents *)

PrimitiveSchema(schema_type, title) ==
    Schema(Some(Single(schema_type)), title, <<>>, {}, None, <<>>, <<>>, <<>>)

StringSchema == PrimitiveSchema("String", None)

EmptySchema == Schema(None, None, <<>>, {}, None, <<>>, <<>>, <<>>)

ObjectSchema(title, properties, required) ==
    Schema(Some(Single("Object")), title, properties, required, None,
           <<>>, <<>>, <<>>)

ArraySchema(items) ==
    Schema(Some(Single("Array")), None, <<>>, {}, items, <<>>, <<>>, <<>>)

AnyOfSchema(title, members) ==
    Schema(None, title, <<>>, {}, None, members, <<>>, <<>>)

OneOfSchema(title, members) ==
    Schema(None, title, <<>>, {}, None, <<>>, members, <<>>)

\* An inline object with a title, as a property or an array item carries it.
InlineCat ==
    Obj(ObjectSchema(Some("Cat"), <<Prop("x", Obj(StringSchema))>>, {"x"}))

\* The shapes a component schema takes; self and other are component keys.
Shapes(self, other) ==
    {EmptySchema,
     StringSchema,
     PrimitiveSchema("Integer", Some("Cat")),
     PrimitiveSchema("Null", None),
     Schema(Some(Multiple(<<"String", "Null">>)), None, <<>>, {}, None,
            <<>>, <<>>, <<>>),
     Schema(None, None, <<>>, {}, None, <<>>, <<>>, <<Obj(StringSchema)>>),
     ArraySchema(None),
     ArraySchema(Some(Obj(StringSchema))),
     ArraySchema(Some(Obj(PrimitiveSchema("Integer", None)))),
     ArraySchema(Some(SchemaRef(other))),
     ArraySchema(Some(SchemaRef(self))),
     ArraySchema(Some(InlineCat)),
     ObjectSchema(None, <<>>, {}),
     ObjectSchema(None, <<Prop("p", Obj(StringSchema)),
                          Prop("q", Obj(PrimitiveSchema("Boolean", None)))>>,
                  {"p"}),
     ObjectSchema(None, <<Prop("myProp", Obj(PrimitiveSchema("Number", None)))>>,
                  {}),
     ObjectSchema(None, <<Prop("p", SchemaRef(other)),
                          Prop("q", SchemaRef(other))>>, {"q"}),
     ObjectSchema(None, <<Prop("p", SchemaRef(self))>>, {"p"}),
     ObjectSchema(Some("Cat"), <<Prop("p", SchemaRef(self))>>, {}),
     ObjectSchema(Some("cat"), <<Prop("p", Obj(StringSchema))>>, {"p"}),
     ObjectSchema(None, <<Prop("p", Obj(ArraySchema(Some(Obj(StringSchema)))))>>,
                  {"p"}),
     ObjectSchema(None, <<Prop("p", Obj(ArraySchema(Some(SchemaRef(other)))))>>,
                  {}),
     ObjectSchema(None, <<Prop("p", InlineCat)>>, {}),
     ObjectSchema(None, <<Prop("p", Obj(ObjectSchema(None, <<>>, {})))>>, {"p"}),
     ObjectSchema(None, <<Prop("p", Obj(EmptySchema)),
                          Prop("q", SchemaRef("Missing"))>>, {"p", "q"}),
     AnyOfSchema(None, <<SchemaRef(other), Obj(StringSchema)>>),
     AnyOfSchema(Some("Cat"), <<SchemaRef(other)>>),
     AnyOfSchema(None, <<SchemaRef(self)>>),
     AnyOfSchema(None, <<SchemaRef(other), Obj(EmptySchema)>>),
     OneOfSchema(None, <<SchemaRef(other), Obj(StringSchema)>>),
     OneOfSchema(Some("Cat"), <<InlineCat>>)}

\* Two components of any shape.
GeneralDocuments ==
    {[components |-> <<Prop("A", Obj(a)), Prop("cat_model", Obj(b))>>,
      operations |-> <<>>] :
        a \in Shapes("A", "cat_model"), b \in Shapes("cat_model", "A")}

\* One component of any shape.
SingleDocuments ==
    {[components |-> <<Prop("Empty", Obj(a))>>, operations |-> <<>>] :
        a \in Shapes("Empty", "Missing")}

\* Object components that reference themselves and each other through their
\* properties; a reference to a component left out of the document dangles.
CycleComponent(key, title, target, second) ==
    Prop(key, Obj(ObjectSchema(title,
        <<Prop("p", SchemaRef(target))>> \o second, {"p"})))

CycleDocuments ==
    {[components |->
        SelectSeq(<<CycleComponent("A", None, ta, <<>>),
                    CycleComponent("B", None, tb, <<Prop("q", SchemaRef(tq))>>),
                    CycleComponent("cat_model", title, tc, <<>>)>>,
                  LAMBDA c : c.name \in present),
      operations |-> <<>>] :
        ta \in {"A", "B"}, tb \in {"B", "cat_model"}, tq \in {"A", "B"},
        tc \in {"A", "cat_model"}, title \in {None, Some("Cat")},
        present \in {{"A"}, {"A", "B"}, {"A", "B", "cat_model"}}}

\* Operations of the path /test.
Parameter(name, location, schema, required) ==
    [name |-> name, location |-> location, schema |-> schema,
     required |-> required]

PathOperation(operation_id, responses, parameters, request_body) ==
    [path |-> "/test", operation_id |-> operation_id, responses |-> responses,
     parameters |-> parameters, request_body |-> request_body,
     websocket |-> FALSE]

\* The operation with the extension that makes it a WebSocket operation.
WebSocket(operation) == [operation EXCEPT !.websocket = TRUE]

JsonContent(schema) == <<Prop("application/json", MediaType(Some(schema)))>>

RequestBody(content) == Some(Obj([content |-> content]))

Operations ==
    {PathOperation(Some("getTest"),
         <<Prop("200", [content |-> JsonContent(SchemaRef("A"))])>>, <<>>, None),
     PathOperation(Some("getTest"),
         <<Prop("200", [content |-> JsonContent(Obj(ObjectSchema(None,
                            <<Prop("p", Obj(StringSchema))>>, {"p"})))])>>,
         <<>>, None),
     PathOperation(Some("getTest"),
         <<Prop("200", [content |-> JsonContent(SchemaRef("A"))
                            \o <<Prop("text/plain", MediaType(None))>>]),
           Prop("default", [content |-> JsonContent(SchemaRef("A"))])>>,
         <<>>, RequestBody(JsonContent(SchemaRef("A")))),
     PathOperation(None,
         <<Prop("200", [content |-> JsonContent(SchemaRef("A"))])>>, <<>>, None),
     PathOperation(Some("getTest"),
         <<Prop("200", [content |-> JsonContent(InlineCat)]),
           Prop("abc", [content |-> <<>>])>>, <<>>, None),
     PathOperation(Some("getTest"),
         <<Prop("200", [content |-> <<>>])>>,
         <<Obj(Parameter("id", "Path", None, None)),
           Obj(Parameter("filter", "Query", Some(SchemaRef("A")), Some(TRUE)))>>,
         None),
     PathOperation(Some("getTest"),
         <<Prop("200", [content |-> <<>>])>>,
         <<Obj(Parameter("q", "Query", Some(Obj(StringSchema)), None)),
           Obj(Parameter("filter", "Query", None, None))>>, None),
     PathOperation(Some("getTest"),
         <<Prop("200", [content |-> <<>>])>>,
         <<Ref(<<"#", "components", "parameters", "filter">>)>>, None),
     PathOperation(Some("getTest"),
         <<Prop("404", [content |->
               <<Prop("application/json", MediaType(None)),
                 Prop("application/xml", MediaType(Some(SchemaRef("A"))))>>])>>,
         <<>>, RequestBody(JsonContent(Obj(EmptySchema)))),
     PathOperation(Some("getTest"),
         <<Prop("200", [content |-> JsonContent(InlineCat)])>>, <<>>,
         Some(Ref(<<"#", "components", "requestBodies", "body">>))),
     PathOperation(Some("getTest"),
         <<Prop("200", [content |-> JsonContent(Obj(EmptySchema))]),
           Prop("404", [content |-> JsonContent(SchemaRef("A"))])>>, <<>>,
         RequestBody(JsonContent(Obj(EmptySchema)))),
     PathOperation(Some("getTest"),
         <<Prop("200", [content |-> <<Prop("text/plain", MediaType(None))>>])>>,
         <<>>,
         RequestBody(JsonContent(SchemaRef("A"))
                     \o <<Prop("text/plain", MediaType(None))>>)),
     PathOperation(Some("getTest"),
         <<Prop("200", [content |-> JsonContent(SchemaRef("A"))])>>,
         <<Obj(Parameter("q", "Query", Some(Obj(StringSchema)), Some(TRUE))),
           Obj(Parameter("ids", "Query",
                         Some(Obj(ArraySchema(Some(Obj(StringSchema))))),
                         Some(TRUE))),
           Obj(Parameter("tags", "Query",
                         Some(Obj(ArraySchema(Some(Obj(StringSchema))))), None)),
           Obj(Parameter("filter", "Query", Some(Obj(StringSchema)),
                         Some(FALSE)))>>,
         None),
     PathOperation(Some("getTest"),
         <<Prop("200", [content |-> JsonContent(SchemaRef("A"))])>>,
         <<Obj(Parameter("myParam", "Query", Some(Obj(StringSchema)), None)),
           Obj(Parameter("my_param", "Query", Some(Obj(StringSchema)), None))>>,
         None),
     PathOperation(Some("getTest"),
         <<Prop("200", [content |->
               <<Prop("application/json", MediaType(None)),
                 Prop("text/plain", MediaType(None))>>]),
           Prop("404", [content |->
               <<Prop("application/xml", MediaType(Some(SchemaRef("A"))))>>])>>,
         <<>>, None),
     [PathOperation(Some("getTest"),
          <<Prop("200", [content |-> JsonContent(SchemaRef("A"))])>>, <<>>, None)
      EXCEPT !.path = "/pets/{id}"],
     [PathOperation(Some("getTest"),
          <<Prop("200", [content |-> JsonContent(SchemaRef("A"))])>>,
          <<Obj(Parameter("petId", "Path", Some(Obj(StringSchema)), Some(TRUE))),
            Obj(Parameter("id", "Path", Some(Obj(StringSchema)), Some(TRUE)))>>,
          RequestBody(JsonContent(SchemaRef("A"))))
      EXCEPT !.path = "/pets/{petId}/toys/{id}"]}

\* Documents with one or two components and one operation.
OperationComponents ==
    {<<Prop("A", Obj(a))>> :
        a \in {ObjectSchema(None, <<Prop("p", Obj(StringSchema))>>, {"p"}),
               ObjectSchema(None, <<Prop("p", SchemaRef("A"))>>, {}),
               StringSchema,
               EmptySchema,
               Schema(Some(Multiple(<<"String", "Null">>)), None, <<>>, {}, None,
                      <<>>, <<>>, <<>>)}}
    \cup
    {<<Prop("A", Obj(ObjectSchema(None, <<Prop("p", SchemaRef("cat_model"))>>,
                                  {"p"}))),
       Prop("cat_model", Obj(ObjectSchema(Some("Cat"),
                                 <<Prop("y", Obj(StringSchema))>>, {})))>>}

OperationDocuments ==
    {[components |-> components, operations |-> <<operation>>] :
        components \in OperationComponents, operation \in Operations}

\* WebSocket operations of the path /test.
WebSocketOperations ==
    {WebSocket(PathOperation(Some("getTest"),
         <<Prop("200", [content |-> JsonContent(SchemaRef("A"))
                           \o <<Prop("text/plain", MediaType(None))>>])>>,
         <<>>, None)),
     WebSocket(PathOperation(Some("getTest"),
         <<Prop("200", [content |-> <<Prop("text/plain", MediaType(None))>>])>>,
         <<Obj(Parameter("q", "Query", Some(Obj(StringSchema)), None))>>,
         None)),
     WebSocket(PathOperation(Some("getTest"),
         <<Prop("200", [content |-> JsonContent(Obj(EmptySchema))])>>,
         <<>>, None)),
     WebSocket(PathOperation(Some("getTest"),
         <<Prop("404", [content |-> JsonContent(SchemaRef("A"))])>>,
         <<>>, None)),
     WebSocket(PathOperation(Some("getTest"),
         <<Prop("200", [content |-> <<>>])>>, <<>>, None)),
     WebSocket(PathOperation(None,
         <<Prop("200", [content |-> JsonContent(SchemaRef("A"))])>>,
         <<>>, None)),
     WebSocket([PathOperation(Some("getTest"),
         <<Prop("200", [content |-> JsonContent(SchemaRef("A"))])>>,
         <<Obj(Parameter("petId", "Path", Some(Obj(StringSchema)), Some(TRUE))),
           Obj(Parameter("id", "Path", Some(Obj(StringSchema)), Some(TRUE)))>>,
         RequestBody(JsonContent(SchemaRef("A"))))
        EXCEPT !.path = "/pets/{petId}/toys/{id}"])}

WebSocketDocuments ==
    {[components |-> components, operations |-> <<operation>>] :
        components \in OperationComponents, operation \in WebSocketOperations}

\* Documents with two operations: any operation, then one on another path. The
\* first of the two components is an array without items.
TwoOperationDocuments ==
    {[components |->
         <<Prop("A", Obj(ArraySchema(None))),
           Prop("cat_model",
                Obj(ObjectSchema(None, <<Prop("p", Obj(StringSchema))>>, {"p"})))>>,
      operations |->
         <<operation,
           [PathOperation(Some("getTest"),
                <<Prop("200", [content |-> JsonContent(SchemaRef("cat_model"))])>>,
                <<>>, None) EXCEPT !.path = "/other"]>>] :
        operation \in Operations}

Documents ==
    GeneralDocuments \cup SingleDocuments \cup CycleDocuments
        \cup OperationDocuments \cup TwoOperationDocuments
        \cup WebSocketDocuments

EmptyNameMapping ==
    [struct_mapping |-> EmptyMap, property_mapping |-> EmptyMap,
     module_mapping |-> EmptyMap, status_code_mapping |-> EmptyMap]

\* Config::new(), and configurations that ignore a component or rename one.
\* A mapping holds at most one override, so overrides are never chained.
Configs ==
    {[name_mapping |-> EmptyNameMapping,
      ignore |-> [paths |-> {}, components |-> ignored]] :
        ignored \in {{}, {"A"}, {"cat_model"}}}
    \cup
    {[name_mapping |->
        [EmptyNameMapping EXCEPT !.struct_mapping =
            path_to_string(get_components_base_path, "A") :> "Alpha"],
      ignore |-> [paths |-> {}, components |-> {}]]}

----------------------------------------------------------------------------
(* The pass: main.rs *)

Init ==
    /\ spec \in Documents
    /\ config \in Configs
    /\ object_database = EmptyMap
    /\ pc = "components"
    /\ index = 1
    /\ pending = <<>>
    /\ history = <<>>
    /\ outcomes = <<>>
    /\ generated_paths = <<>>
    /\ files = EmptyMap
    /\ call = None

\* generate_components: the loop body runs for the next component.
Component ==
    /\ pc = "components"
    /\ pending = <<>>
    /\ index <= Len(spec.components)
    /\ pending' = generate_component(object_database,
                      spec.components[index].name,
                      spec.components[index].value).store.log
    /\ outcomes' = Append(outcomes,
           [c \in {"unit", "status", "name"} |->
               generate_component(object_database, spec.components[index].name,
                                  spec.components[index].value)[c]])
    /\ index' = index + 1
    /\ pc' = after_component(
                 generate_component(object_database, spec.components[index].name,
                                    spec.components[index].value).status)
    /\ UNCHANGED <<call, spec, config, object_database, history, generated_paths,
                   files>>

\* The next event of the running unit takes effect.
Replay ==
    /\ pc \in {"components", "paths"}
    /\ pending # <<>>
    /\ object_database' =
           IF Head(pending).ev = "insert"
           THEN MapInsert(object_database, Head(pending).key, Head(pending).val)
           ELSE object_database
    /\ pc' = IF Head(pending).ev = "overflow" THEN "overflow" ELSE pc
    /\ history' = Append(history,
           [phase |-> pc, unit |-> index - 1] @@ Head(pending))
    /\ pending' = Tail(pending)
    /\ UNCHANGED <<call, spec, config, index, outcomes, generated_paths, files>>

\* generate_components returns Ok(object_database); generate_paths starts.
ComponentsDone ==
    /\ pc = "components"
    /\ pending = <<>>
    /\ index > Len(spec.components)
    /\ pc' = "paths"
    /\ index' = 1
    /\ UNCHANGED <<call, spec, config, object_database, pending, history, outcomes,
                   generated_paths, files>>

\* generate_paths: generate_operation runs for the next operation.
Operation ==
    /\ pc = "paths"
    /\ pending = <<>>
    /\ index <= Len(spec.operations)
    /\ ~spec.operations[index].websocket
    /\ pending' = generate_operation(object_database,
                                     spec.operations[index]).store.log
    /\ \E order \in Orders(path_parameter_keys(spec.operations[index])) :
          generated_paths' = Append(generated_paths,
              [c \in {"unit", "status", "name", "response_entities",
                      "query_struct", "request_body", "stages"} |->
                  generate_operation(object_database, spec.operations[index])[c]]
              @@ [template |->
                     operation_template(spec.operations[index],
                         generate_operation(object_database,
                                            spec.operations[index]),
                         order)])
    /\ index' = index + 1
    /\ pc' = after_operation(
                 generate_operation(object_database, spec.operations[index]).status)
    /\ UNCHANGED <<call, spec, config, object_database, history, outcomes, files>>

\* generate_paths, one WebSocket operation: as Operation, with the generator
\* of WebSocket operations; first is the content of the 200 response that the
\* HashMap happens to iterate first.
WebSocketOperation ==
    /\ pc = "paths"
    /\ pending = <<>>
    /\ index <= Len(spec.operations)
    /\ spec.operations[index].websocket
    /\ \E first \in websocket_first_content_types(object_database,
                                                  spec.operations[index]) :
          /\ pending' = websocket_generate_operation(object_database,
                            spec.operations[index], first).store.log
          /\ generated_paths' = Append(generated_paths,
                [c \in {"unit", "status", "name", "response_entities",
                        "query_struct", "request_body"} |->
                    websocket_generate_operation(object_database,
                        spec.operations[index], first)[c]]
                @@ [template |->
                       websocket_template(spec.operations[index],
                           websocket_generate_operation(object_database,
                               spec.operations[index], first),
                           first)])
          /\ pc' = after_operation(
                       websocket_generate_operation(object_database,
                           spec.operations[index], first).status)
    /\ index' = index + 1
    /\ UNCHANGED <<call, spec, config, object_database, history, outcomes, files>>

\* generate_paths returns; write_object_database starts.
PathsDone ==
    /\ pc = "paths"
    /\ pending = <<>>
    /\ index > Len(spec.operations)
    /\ pc' = "write"
    /\ UNCHANGED <<call, spec, config, object_database, index, pending, history,
                   outcomes, generated_paths, files>>

\* write_object_database: the file of the next object, in the order the
\* HashMaps happen to be iterated.
WriteObject ==
    /\ pc = "write"
    /\ \E key \in DOMAIN object_database \ DOMAIN files :
       \E order \in Orders(member_keys(object_database[key])) :
           files' = MapInsert(files, key,
               [path |-> name_to_module_name(
                             get_object_name(object_database[key])),
                content |-> object_to_string(object_database[key], order)])
    /\ UNCHANGED <<call, spec, config, object_database, pc, index, pending, history,
                   outcomes, generated_paths>>

\* write_object_database returns Ok.
WriteDone ==
    /\ pc = "write"
    /\ DOMAIN files = DOMAIN object_database
    /\ pc' = "done"
    /\ UNCHANGED <<call, spec, config, object_database, index, pending, history,
                   outcomes, generated_paths, files>>

Next ==
    \/ Component
    \/ Replay
    \/ ComponentsDone
    \/ Operation
    \/ WebSocketOperation
    \/ PathsDone
    \/ WriteObject
    \/ WriteDone

Spec == Init /\ [][Next]_vars

----------------------------------------------------------------------------
(* A direct call of get_type_from_schema (type_definition.rs 17-77) *)

\* The documents the call is made on: one component A.
CallDocuments ==
    {[components |-> <<Prop("A", Obj(a))>>, operations |-> <<>>] :
        a \in {ObjectSchema(None, <<Prop("p", Obj(StringSchema))>>, {"p"}),
               ObjectSchema(Some("Cat"), <<Prop("p", Obj(StringSchema))>>, {}),
               StringSchema,
               EmptySchema}}

\* The members of the anyOf and oneOf lists of the schemas of a call.
CallMembers ==
    {<<SchemaRef("A")>>,
     <<Obj(StringSchema)>>,
     <<Obj(PrimitiveSchema("Integer", Some("cat")))>>,
     <<SchemaRef("A"), InlineCat>>,
     <<Obj(EmptySchema), Obj(StringSchema)>>}

\* The schemas get_type_from_schema is called on.
CallSchemas ==
    {[EmptySchema EXCEPT !.title = title] : title \in {None, Some("Cat")}}
    \cup {PrimitiveSchema(schema_type, title) :
            schema_type \in {"Boolean", "String", "Number", "Integer", "Null"},
            title \in {None, Some("Cat")}}
    \cup {AnyOfSchema(title, members) :
            title \in {None, Some("Cat")}, members \in CallMembers}
    \cup {OneOfSchema(title, members) :
            title \in {None, Some("Cat")}, members \in CallMembers}
    \cup {[OneOfSchema(title, members)
               EXCEPT !.schema_type = Some(Single("Object"))] :
            title \in {None, Some("Cat")}, members \in CallMembers}
    \cup {ObjectSchema(title, <<Prop("p", Obj(StringSchema))>>, {"p"}) :
            title \in {None, Some("Cat")}}
    \cup {ArraySchema(items) :
            items \in {None, Some(Obj(StringSchema)), Some(SchemaRef("A"))}}

\* The arguments of the call: a definition path, a schema, and the fallback
\* name the caller supplies, if any.
InitCall ==
    /\ spec \in CallDocuments
    /\ config \in Configs
    /\ object_database = EmptyMap
    /\ pc = "call"
    /\ index = 1
    /\ pending = <<>>
    /\ history = <<>>
    /\ outcomes = <<>>
    /\ generated_paths = <<>>
    /\ files = EmptyMap
    /\ call \in [definition_path : {get_components_base_path, <<"/test">>},
                 object_schema : CallSchemas,
                 object_variable_fallback_name :
                     {None, Some("filter"), Some("Cat")},
                 result : {None}]

\* get_type_from_schema is called and returns: the database is as the call
\* leaves it and the history holds the events of the call.
GetTypeFromSchema ==
    /\ pc = "call"
    /\ call' = [call EXCEPT !.result =
           Some([c \in {"st", "val"} |->
               get_type_from_schema(EmptyStore(object_database), 0,
                   call.definition_path, call.object_schema,
                   call.object_variable_fallback_name)[c]])]
    /\ object_database' =
           get_type_from_schema(EmptyStore(object_database), 0,
               call.definition_path, call.object_schema,
               call.object_variable_fallback_name).s.db
    /\ history' =
           get_type_from_schema(EmptyStore(object_database), 0,
               call.definition_path, call.object_schema,
               call.object_variable_fallback_name).s.log
    /\ pc' = "returned"
    /\ UNCHANGED <<spec, config, index, pending, outcomes, generated_paths,
                   files>>

NextCall == GetTypeFromSchema

SpecCall == InitCall /\ [][NextCall]_vars

----------------------------------------------------------------------------
(* Properties of the pass *)

Components == 1..Len(spec.components)

ComponentKey(i) == spec.components[i].name

ComponentSchema(i) == spec.components[i].value.object

Range(seq) == {seq[n] : n \in 1..Len(seq)}

\* The canonical name of component i: derived from its title when it has one,
\* from its key otherwise.
CanonicalName(i) ==
    IF IsSome(ComponentSchema(i).title)
    THEN name_to_struct_name(get_components_base_path,
                             Unwrap(ComponentSchema(i).title))
    ELSE name_to_struct_name(get_components_base_path, ComponentKey(i))

IsObjectComponent(i) == ComponentSchema(i).schema_type = Some(Single("Object"))

\* The properties of component i whose schema is a $ref to component i.
SelfProperties(i) ==
    {j \in 1..Len(ComponentSchema(i).properties) :
        ComponentSchema(i).properties[j].value = SchemaRef(ComponentKey(i))}

SelfReferencing(i) == IsObjectComponent(i) /\ SelfProperties(i) # {}

\* The schemas written inline directly below a schema.
InlineChildren(schema) ==
    {c.object : c \in {c \in Range([j \in 1..Len(schema.properties) |->
                                       schema.properties[j].value])
                              \cup Range(schema.items) \cup Range(schema.any_of)
                              \cup Range(schema.one_of) : ~IsRef(c)}}

\* The struct names the titles of the schemas nested inline in a schema give.
RECURSIVE InlineNames(_)
InlineNames(schema) ==
    UNION {(IF IsSome(c.title) THEN {ToPascal(Unwrap(c.title))} ELSE {})
              \cup InlineNames(c) : c \in InlineChildren(schema)}

\* No other schema of the document resolves to the canonical name of component i.
UniqueName(i) ==
    /\ \A j \in Components \ {i} : CanonicalName(j) # CanonicalName(i)
    /\ \A j \in Components : CanonicalName(i) \notin InlineNames(ComponentSchema(j))

\* generate_components has returned.
AfterComponents == pc \in {"paths", "write", "done"}

\* The database holds component i as one struct under its canonical name, and
\* each property that refers to the component has that name for its type.
SelfReferenceResolved(i) ==
    /\ CanonicalName(i) \in DOMAIN object_database
    /\ \A key \in DOMAIN object_database :
           object_database[key].name = CanonicalName(i) => key = CanonicalName(i)
    /\ object_database[CanonicalName(i)].kind = "Struct"
    /\ \A j \in SelfProperties(i) :
           /\ ToSnake(ComponentSchema(i).properties[j].name)
                  \in DOMAIN object_database[CanonicalName(i)].properties
           /\ object_database[CanonicalName(i)].properties[
                  ToSnake(ComponentSchema(i).properties[j].name)].type_name
                  = CanonicalName(i)

\* C1 (amended): after generate_components, an object component with a property
\* that is a $ref to the component itself has exactly one database entry under
\* its canonical name, a Struct whose property has that name for its type,
\* provided the component is not ignored and no other schema of the document
\* resolves to the same canonical name.
C1_SelfReference ==
    AfterComponents =>
        \A i \in Components :
            (/\ SelfReferencing(i)
             /\ ~component_ignored(ComponentKey(i))
             /\ UniqueName(i)) => SelfReferenceResolved(i)

\* C1 as stated: the same for every self-referencing object component.
C1_AsStated ==
    AfterComponents =>
        \A i \in Components : SelfReferencing(i) => SelfReferenceResolved(i)

C1_Witness ==
    /\ pc = "done"
    /\ \E i \in Components :
           /\ SelfReferencing(i)
           /\ ~component_ignored(ComponentKey(i))
           /\ UniqueName(i)
           /\ SelfReferenceResolved(i)

\* Every component is an object schema: the references between components run
\* through properties.
ObjectComponents == \A i \in Components : IsObjectComponent(i)

\* C2: on a document whose components are objects that refer to themselves and
\* to each other through their properties, every resolution call returns: no
\* call of the walker's loop finds the stack exhausted, whatever the cycles.
C2_Terminates ==
    ObjectComponents =>
        /\ pc # "overflow"
        /\ \A n \in 1..Len(pending) : pending[n].ev # "overflow"
        /\ \A i \in 1..Len(outcomes) : outcomes[i].status # "overflow"

\* Three object components on one cycle A -> B -> cat_model -> A, resolved.
C2_Witness ==
    /\ pc = "done"
    /\ Len(spec.components) = 3
    /\ ObjectComponents
    /\ ComponentSchema(1).properties[1].value = SchemaRef("B")
    /\ ComponentSchema(2).properties[1].value = SchemaRef("cat_model")
    /\ ComponentSchema(3).properties[1].value = SchemaRef("A")
    /\ \A i \in Components :
           /\ CanonicalName(i) \in DOMAIN object_database
           /\ DOMAIN object_database[CanonicalName(i)].properties # {}

\* C3 as stated: when a name that get_or_create_object has resolved before is
\* resolved again, the database holds one entry under the name and the second
\* resolution returns what the first returned.
C3_SameDefinition ==
    \A j \in 1..Len(history) :
        (history[j].ev = "return" /\ history[j].how = "found") =>
            /\ history[j].key \in DOMAIN object_database
            /\ \A i \in 1..(j - 1) :
                   (/\ history[i].ev = "return"
                    /\ history[i].how = "created"
                    /\ history[i].key = history[j].key) =>
                       /\ history[i].st = history[j].st
                       /\ history[i].val = history[j].val

\* C4: a component the walker resolves is named after its title when it has
\* one and after its key only when it has none, and is stored under that name.
C4_TitlePrecedence ==
    \A i \in 1..Len(outcomes) :
        outcomes[i].status \in {"inserted", "present"} =>
            /\ outcomes[i].name = CanonicalName(i)
            /\ pending = <<>> =>
                   /\ CanonicalName(i) \in DOMAIN object_database
                   /\ object_database[CanonicalName(i)].name = CanonicalName(i)

\* A component with a title is stored under the title's name, which is not the
\* name its key gives.
C4_Witness ==
    /\ pending = <<>>
    /\ \E i \in 1..Len(outcomes) :
           /\ outcomes[i].status = "inserted"
           /\ IsSome(ComponentSchema(i).title)
           /\ outcomes[i].name
                  # name_to_struct_name(get_components_base_path, ComponentKey(i))
           /\ outcomes[i].name \in DOMAIN object_database

\* C5 as stated: on the document whose only component is Empty: {}, the walker
\* leaves a database with exactly one entry, Empty, a struct without properties.
C5_EmptyComponent ==
    (/\ spec.components = <<Prop("Empty", Obj(EmptySchema))>>
     /\ config.ignore.components = {}
     /\ AfterComponents) =>
        /\ DOMAIN object_database = {"Empty"}
        /\ object_database["Empty"].kind = "Struct"
        /\ DOMAIN object_database["Empty"].properties = {}

\* C6 as stated: at the end of the pass the database has no entry for a
\* component whose key is in the ignore list (the name being the component's
\* alone).
C6_IgnoredAbsent ==
    pc = "done" =>
        \A i \in Components :
            (component_ignored(ComponentKey(i)) /\ UniqueName(i)) =>
                CanonicalName(i) \notin DOMAIN object_database

OptionalLine(property) ==
    "pub " \o property.name \o ": Option<" \o property.type_name \o ">,\n"

RequiredLine(property) ==
    "pub " \o property.name \o ": " \o property.type_name \o ",\n"

\* The text of a struct renders each property by its flag.
RenderedByFlag(struct_definition, content) ==
    \A k \in DOMAIN struct_definition.properties :
        /\ OptionalLine(struct_definition.properties[k]) \in Range(content)
               <=> ~struct_definition.properties[k].required
        /\ RequiredLine(struct_definition.properties[k]) \in Range(content)
               <=> struct_definition.properties[k].required

\* C7: in every struct generate_struct returns, a property's required flag is
\* true exactly when its wire name is in the schema's required list, and the
\* struct's text has the property as an Option exactly when the flag is false.
C7_RequiredFlag ==
    /\ \A j \in 1..Len(history) :
           history[j].ev = "struct" =>
               \A k \in DOMAIN history[j].val.properties :
                   history[j].val.properties[k].required
                       <=> (history[j].val.properties[k].real_name
                                \in history[j].schema.required)
    /\ \A key \in DOMAIN files :
           object_database[key].kind = "Struct" =>
               RenderedByFlag(object_database[key], files[key].content)

\* A written struct with a required and an optional property.
C7_Witness ==
    \E key \in DOMAIN files :
        /\ object_database[key].kind = "Struct"
        /\ \E k, l \in DOMAIN object_database[key].properties :
               /\ object_database[key].properties[k].required
               /\ ~object_database[key].properties[l].required
               /\ RequiredLine(object_database[key].properties[k])
                      \in Range(files[key].content)
               /\ OptionalLine(object_database[key].properties[l])
                      \in Range(files[key].content)

\* The Rust type of a primitive schema type.
PrimitiveTypes ==
    [Boolean |-> "bool", String |-> "String", Number |-> "f64",
     Integer |-> "i32"]

IsPrimitive(object_schema) ==
    /\ IsSome(object_schema.schema_type)
    /\ IsSingle(Unwrap(object_schema.schema_type))
    /\ Unwrap(object_schema.schema_type).single \in DOMAIN PrimitiveTypes

\* A schema of type array whose items resolve to a schema of a primitive type.
ArrayOfPrimitive(object_schema) ==
    /\ object_schema.schema_type = Some(Single("Array"))
    /\ IsSome(object_schema.items)
    /\ resolve(spec, Unwrap(object_schema.items)).ok
    /\ IsPrimitive(resolve(spec, Unwrap(object_schema.items)).val)

ItemType(object_schema) ==
    PrimitiveTypes[Unwrap(resolve(spec, Unwrap(object_schema.items)).val
                              .schema_type).single]

\* C8: get_type_from_schema on an array whose items are of a primitive type
\* returns the type Vec<primitive> without a module and leaves the database as
\* it was.
C8_ArrayOfPrimitive ==
    \A j \in 1..Len(history) :
        (history[j].ev = "type" /\ ArrayOfPrimitive(history[j].schema)) =>
            /\ history[j].st = "ok"
            /\ history[j].val
                   = TypeDefinition("Vec<" \o ItemType(history[j].schema) \o ">",
                                    None)
            /\ history[j].unchanged

\* An array of strings has been resolved to Vec<String>.
C8_Witness ==
    \E j \in 1..Len(history) :
        /\ history[j].ev = "type"
        /\ ArrayOfPrimitive(history[j].schema)
        /\ history[j].val.name = "Vec<String>"
        /\ history[j].unchanged

\* The names of the modules a set of optional modules refers to.
ModuleNames(modules) == {Unwrap(m).name : m \in {m \in modules : IsSome(m)}}

\* The named types a definition of the database refers to.
DefinitionReferences(object_definition) ==
    CASE object_definition.kind = "Struct" ->
            ModuleNames({object_definition.properties[k].module :
                            k \in DOMAIN object_definition.properties})
      [] object_definition.kind = "Enum" ->
            ModuleNames({object_definition.values[k].value_type.module :
                            k \in DOMAIN object_definition.values})
      [] OTHER -> ModuleNames({object_definition.primitive_type.module})

DatabaseReferences ==
    UNION {DefinitionReferences(object_database[key]) :
              key \in DOMAIN object_database}

\* The named types the media types of a content map refer to.
ContentReferences(content) ==
    ModuleNames({Unwrap(content[c].type_definition).module :
                    c \in {c \in DOMAIN content :
                              /\ content[c].kind = "ApplicationJson"
                              /\ IsSome(content[c].type_definition)}})

\* The named types a generated operation refers to: its responses, its query
\* parameters and its request body.
OperationReferences(path) ==
    UNION {ContentReferences(path.response_entities[r].content) :
              r \in DOMAIN path.response_entities}
    \cup UNION {DefinitionReferences(q) : q \in Range(path.query_struct)}
    \cup UNION {ContentReferences(b.content) : b \in Range(path.request_body)}

PathReferences ==
    UNION {OperationReferences(generated_paths[n]) :
              n \in {n \in 1..Len(generated_paths) :
                        generated_paths[n].status = "generated"}}

\* C9 as stated: at the end of the pass every named type a definition of the
\* database or a generated operation refers to is an entry of the database.
C9_ReferencesExist ==
    pc = "done" =>
        (DatabaseReferences \cup PathReferences) \subseteq DOMAIN object_database

\* The hull get_or_create_object inserts before it builds the object.
IsHull(object_definition) ==
    /\ object_definition.kind = "Struct"
    /\ object_definition.used_modules = <<>>
    /\ DOMAIN object_definition.properties = {}

----------------------------------------------------------------------------
\* C11: a structural error in one component or one operation skips only that
\* unit. The pass never stops at a unit: once generate_components has returned
\* every component has had its iteration, and once generate_paths has returned
\* every operation has had its call, in the order of the document, each with
\* the outcome of its own resolution.
C11_ErrorsSkipUnit ==
    /\ pc # "failed"
    /\ AfterComponents =>
          /\ Len(outcomes) = Len(spec.components)
          /\ \A i \in Components : outcomes[i].unit = ComponentKey(i)
    /\ pc \in {"write", "done"} =>
          /\ Len(generated_paths) = Len(spec.operations)
          /\ \A i \in 1..Len(spec.operations) :
                /\ generated_paths[i].unit = spec.operations[i].path
                /\ generated_paths[i].status \in {"generated", "error"}

\* The array without items and an operation in error are each followed by a
\* unit that is built.
C11_Witness ==
    /\ pc = "done"
    /\ Len(outcomes) = 2 /\ Len(generated_paths) = 2
    /\ outcomes[1].status = "error" /\ outcomes[2].status = "inserted"
    /\ "CatModel" \in DOMAIN object_database
    /\ generated_paths[1].status = "error"
    /\ generated_paths[2].status = "generated"

----------------------------------------------------------------------------
\* The operations generate_operation has generated, and what it handed on.
GeneratedOperations ==
    {i \in 1..Len(generated_paths) :
        /\ generated_paths[i].status = "generated"
        /\ ~spec.operations[i].websocket}

Template(i) == Unwrap(generated_paths[i].template)

\* The content types a response of operation i declares for a status.
DeclaredContent(i, status_code) ==
    {Unwrap(Lookup(spec.operations[i].responses, status_code)).content[n].name :
        n \in 1..Len(Unwrap(Lookup(spec.operations[i].responses,
                                   status_code)).content)}

\* The statuses operation i declares, default aside.
DeclaredStatuses(i) ==
    {spec.operations[i].responses[n].name :
        n \in 1..Len(spec.operations[i].responses)} \ {"default"}

\* The type a response variant carries for a transfer media type.
CarriedType(transfer_media_type) ==
    CASE transfer_media_type.kind = "TextPlain" -> TypeDefinition("String", None)
      [] transfer_media_type.type_definition = None -> TypeDefinition("", None)
      [] OTHER -> transfer_media_type.type_definition[1]

\* The response for the status has a value enum with exactly the variants
\* Json and Text, and the response variant carries that enum.
HasJsonTextEnum(i, status_code) ==
    /\ status_code \in DOMAIN Template(i).response_value_enums
    /\ LET value_enum == Template(i).response_value_enums[status_code]
           content == generated_paths[i].response_entities[status_code].content
       IN  /\ value_enum.kind = "Enum"
           /\ DOMAIN value_enum.values = {"Json", "Text"}
           /\ value_enum.values["Json"].name = "Json"
           /\ value_enum.values["Text"].name = "Text"
           /\ "application/json" \in DOMAIN content
           /\ value_enum.values["Json"].value_type =
                  CarriedType(content["application/json"])
           /\ value_enum.values["Text"].value_type = TypeDefinition("String", None)
           /\ status_code \in DOMAIN Template(i).response_enum.values
           /\ Template(i).response_enum.values[status_code].value_type =
                  TypeDefinition(value_enum.name, None)

\* The response for the status has no value enum and its variant carries the
\* type of its one content.
CarriesContentDirectly(i, status_code) ==
    /\ status_code \notin DOMAIN Template(i).response_value_enums
    /\ status_code \in DOMAIN Template(i).response_enum.values
    /\ status_code \in DOMAIN generated_paths[i].response_entities
    /\ \E content_type \in
            DOMAIN generated_paths[i].response_entities[status_code].content :
          Template(i).response_enum.values[status_code].value_type =
             CarriedType(generated_paths[i].response_entities[status_code]
                             .content[content_type])

----------------------------------------------------------------------------
\* C13: every declared status, default aside, whose response has no content
\* entries appears in the operation's response enum, as a variant that
\* carries no payload.
C13_EmptyResponseVariant ==
    \A i \in GeneratedOperations :
        \A status_code \in DeclaredStatuses(i) :
            DeclaredContent(i, status_code) = {} =>
                /\ status_code \in DOMAIN Template(i).response_enum.values
                /\ Template(i).response_enum.values[status_code].value_type.name
                       = ""

----------------------------------------------------------------------------
\* The property of the path struct of operation i made for the parameter
\* segment with this name.
PathProperties(i, real_name) ==
    {key \in DOMAIN Template(i).parameters_struct.properties :
        Template(i).parameters_struct.properties[key].real_name = real_name}

\* C14: every {param} segment of the path becomes one required String
\* property of the path struct, and the arguments handed to the positional
\* format string name these properties in the left-to-right order of the
\* segments in the path, with two or more parameters as with one.
C14_PathParameterOrder ==
    \A i \in GeneratedOperations :
        LET names == path_parameter_names(spec.operations[i].path)
        IN  /\ Size(Template(i).parameters_struct.properties) = Len(names)
            /\ \A n \in 1..Len(names) :
                  \E key \in PathProperties(i, names[n]) :
                      /\ PathProperties(i, names[n]) = {key}
                      /\ Template(i).parameters_struct.properties[key].required
                      /\ Template(i).parameters_struct.properties[key].type_name
                             = "String"
            /\ Len(Template(i).path_parameter_arguments) = Len(names)
            /\ \A n \in 1..Len(names) :
                  \E key \in PathProperties(i, names[n]) :
                      Template(i).path_parameter_arguments[n] =
                          "path_parameters." \o key

----------------------------------------------------------------------------
\* The query parameters operation i declares in place.
DeclaredQueryParameters(i) ==
    {spec.operations[i].parameters[n].object :
        n \in {m \in 1..Len(spec.operations[i].parameters) :
                  /\ "object" \in DOMAIN spec.operations[i].parameters[m]
                  /\ spec.operations[i].parameters[m].object.location = "Query"}}

\* The policy the specification gives a declared query parameter.
QueryPolicy(parameter) ==
    LET required == IsSome(parameter.required) /\ Unwrap(parameter.required)
        array == /\ IsSome(parameter.schema)
                 /\ "object" \in DOMAIN Unwrap(parameter.schema)
                 /\ Unwrap(parameter.schema).object.schema_type
                        = Some(Single("Array"))
    IN  CASE required /\ ~array -> "initial"
          [] required /\ array -> "for_each"
          [] ~required /\ ~array -> "if_some"
          [] OTHER -> "if_some_for_each"

QueryPolicies == {"initial", "for_each", "if_some", "if_some_for_each"}

\* C15: every query parameter of an operation is serialized by exactly one
\* policy, the one its being required and its being an array select; no
\* parameter is emitted twice and none is left out.
C15_QueryParameterPolicy ==
    \A i \in GeneratedOperations :
        \A parameter \in DeclaredQueryParameters(i) :
            {policy \in QueryPolicies :
                parameter.name \in
                    Template(i).unroll_query_parameters_code[policy]}
                = {QueryPolicy(parameter)}

----------------------------------------------------------------------------
\* The content types the request body of operation i resolved to.
RequestContentTypes(i) ==
    IF IsSome(generated_paths[i].request_body)
    THEN DOMAIN Unwrap(generated_paths[i].request_body).content
    ELSE {}

ParameterNames(parameters) == {parameters[n].name : n \in 1..Len(parameters)}

\* C16: a request body that resolves to two or more content types gives one
\* specialized function per content type, each with client and server, and a
\* main function that takes a request builder instead of client and server;
\* a request body of no or one content type gives no specialized function
\* and a main function with client and server.
C16_MultiRequestFunctions ==
    \A i \in GeneratedOperations :
        LET functions == Template(i).multi_request_type_functions
            main == Template(i).function_parameters
        IN  IF Cardinality(RequestContentTypes(i)) >= 2
            THEN /\ DOMAIN functions = RequestContentTypes(i)
                 /\ \A a, b \in DOMAIN functions :
                       functions[a].function_name = functions[b].function_name
                           => a = b
                 /\ \A a \in DOMAIN functions :
                       /\ functions[a].request_media_type = a
                       /\ SubSeq(functions[a].function_parameters, 1, 2)
                              = ClientAndServer
                 /\ main[1] = FunctionParameter("request_builder",
                                  "reqwest::RequestBuilder", FALSE)
                 /\ ParameterNames(main) \cap {"client", "server"} = {}
            ELSE /\ DOMAIN functions = {}
                 /\ SubSeq(main, 1, 2) = ClientAndServer
                 /\ "request_builder" \notin ParameterNames(main)

\* An operation whose request body has both content types was generated,
\* with a function for each, and so was one with a single content type.
C16_Witness ==
    /\ \E i \in GeneratedOperations :
          /\ RequestContentTypes(i) = {"application/json", "text/plain"}
          /\ {Template(i).multi_request_type_functions[a].function_name :
                 a \in RequestContentTypes(i)}
               = {"get_test_json", "get_test_text"}
          /\ Template(i).function_parameters[1].name = "request_builder"

----------------------------------------------------------------------------
\* C17: a WebSocket operation whose 200 response declares more than one
\* content type ends in an error for that operation; no content type is
\* picked as the message type.
C17_WebSocketMultiContent ==
    \A i \in 1..Len(generated_paths) :
        /\ spec.operations[i].websocket
        /\ "200" \in DeclaredStatuses(i)
        /\ Cardinality(DeclaredContent(i, "200")) > 1
        => /\ generated_paths[i].status = "error"
           /\ generated_paths[i].template = None

----------------------------------------------------------------------------
\* C18: the text written for a type is determined by the input: whatever the
\* order in which a run iterates the properties of a struct or the values of
\* an enum, it writes the same text, so two runs write identical files.
C18_StableMemberOrder ==
    \A key \in DOMAIN files :
        \A order \in Orders(member_keys(object_database[key])) :
            files[key].content = object_to_string(object_database[key], order)

----------------------------------------------------------------------------
\* C19: after generate_components, the Struct stored for a self-referencing
\* object component has an empty used_modules list and no required modules.
C19_SelfReferenceModules ==
    AfterComponents =>
        \A i \in Components :
            (SelfReferencing(i) /\ SelfReferenceResolved(i)) =>
                /\ object_database[CanonicalName(i)].used_modules = <<>>
                /\ \A order \in Orders(member_keys(
                                    object_database[CanonicalName(i)])) :
                       get_required_modules(object_database[CanonicalName(i)],
                                            order) = <<>>

----------------------------------------------------------------------------
\* The content is application/json alone, with a schema that is entirely
\* empty, written in place or referred to.
EmptyJsonContent(content) ==
    /\ Len(content) = 1
    /\ content[1].name = "application/json"
    /\ IsSome(content[1].value.schema)
    /\ resolve(spec, Unwrap(content[1].value.schema)).ok
    /\ resolve(spec, Unwrap(content[1].value.schema)).val = EmptySchema

\* Operation i is an HTTP operation with an operationId and no parameters
\* whose request body and responses all have such a content.
EmptyJsonOperation(i) ==
    /\ ~spec.operations[i].websocket
    /\ IsSome(spec.operations[i].operation_id)
    /\ spec.operations[i].parameters = <<>>
    /\ IsSome(spec.operations[i].request_body)
    /\ ~IsRef(Unwrap(spec.operations[i].request_body))
    /\ EmptyJsonContent(Unwrap(spec.operations[i].request_body).object.content)
    /\ spec.operations[i].responses # <<>>
    /\ \A n \in 1..Len(spec.operations[i].responses) :
          /\ spec.operations[i].responses[n].name \in {"200", "404"}
          /\ EmptyJsonContent(spec.operations[i].responses[n].value.content)

ApplicationJsonNone == [kind |-> "ApplicationJson", type_definition |-> None]

\* generate_operation succeeded for operation i with a void body for the
\* request and for every response.
VoidBodies(i) ==
    /\ generated_paths[i].status = "generated"
    /\ Unwrap(generated_paths[i].request_body).content
           = [content_type \in {"application/json"} |-> ApplicationJsonNone]
    /\ DOMAIN generated_paths[i].response_entities = DeclaredStatuses(i)
    /\ \A status_code \in DeclaredStatuses(i) :
          generated_paths[i].response_entities[status_code].content
              = [content_type \in {"application/json"} |-> ApplicationJsonNone]

\* C20: generate_operation succeeds for an operation whose application/json
\* request and response schemas are entirely empty; each content resolves to
\* ApplicationJson(None), and the operation inserts nothing into the database.
C20_EmptyJson ==
    \A i \in 1..Len(generated_paths) :
        EmptyJsonOperation(i) =>
            /\ VoidBodies(i)
            /\ \A n \in 1..Len(history) :
                  (history[n].phase = "paths" /\ history[n].unit = i)
                      => history[n].ev # "insert"
            /\ \A n \in 1..Len(pending) :
                  (pc = "paths" /\ index = i + 1) => pending[n].ev # "insert"

C20_Witness ==
    /\ pc = "done"
    /\ \E i \in 1..Len(generated_paths) :
          /\ EmptyJsonOperation(i)
          /\ VoidBodies(i)
          /\ DeclaredStatuses(i) = {"200", "404"}
          /\ Template(i).response_enum.values["200"].value_type.name = ""

----------------------------------------------------------------------------
\* The pass is over: the components and the operations have been resolved.
EndOfPass == pc \in {"write", "done"}

\* C21: at the end of the pass no entry of the database is still a hull:
\* every call that inserted a hull has replaced it by the final definition
\* under the same key, whether it returned Ok or Err.
C21_NoHullLeft ==
    EndOfPass => \A key \in DOMAIN object_database : ~IsHull(object_database[key])

----------------------------------------------------------------------------
\* The names the properties of a schema have on the wire.
SchemaPropertyNames(object_schema) ==
    {object_schema.properties[j].name : j \in 1..Len(object_schema.properties)}

\* The wire names of the properties of a stored struct.
StoredPropertyNames(key) ==
    {object_database[key].properties[k].real_name :
        k \in DOMAIN object_database[key].properties}

\* The calls of get_type_from_schema that answered an object schema with a
\* reference to a named type.
ObjectTypeCalls ==
    {n \in 1..Len(history) :
        /\ history[n].ev = "type"
        /\ history[n].st = "ok"
        /\ history[n].schema.schema_type = Some(Single("Object"))}

\* C22: a schema is never answered with the definition another, structurally
\* different schema left under the same canonical name: the type an object
\* schema is resolved to is a struct, and the struct has no property the
\* schema does not have.
C22_CollisionReported ==
    EndOfPass =>
        \A n \in ObjectTypeCalls :
            /\ history[n].val.name \in DOMAIN object_database
            /\ object_database[history[n].val.name].kind = "Struct"
            /\ StoredPropertyNames(history[n].val.name)
                   \subseteq SchemaPropertyNames(history[n].schema)

----------------------------------------------------------------------------
(* Properties of a direct call of get_type_from_schema *)

Returned == pc = "returned"

CallResult == Unwrap(call.result)

\* The schema has no type, const, anyOf, oneOf or allOf.
EntirelyEmpty(object_schema) ==
    /\ object_schema.schema_type = None
    /\ object_schema.const_value = None
    /\ object_schema.any_of = <<>>
    /\ object_schema.one_of = <<>>
    /\ object_schema.all_of = <<>>

\* The name the fallback name of the call gives an object.
FallbackStructName ==
    name_to_struct_name(call.definition_path,
                        Unwrap(call.object_variable_fallback_name))

\* C23: get_type_from_schema on an entirely empty schema returns an error
\* when no fallback name is given; with a fallback name it returns Ok with a
\* reference to an object without properties that the database holds under
\* that name.
C23_EmptySchemaType ==
    (Returned /\ EntirelyEmpty(call.object_schema)) =>
        IF call.object_variable_fallback_name = None
        THEN CallResult.st = "err"
        ELSE /\ CallResult.st = "ok"
             /\ CallResult.val = ObjectType(FallbackStructName)
             /\ FallbackStructName \in DOMAIN object_database
             /\ object_database[FallbackStructName].kind = "Struct"
             /\ DOMAIN object_database[FallbackStructName].properties = {}

----------------------------------------------------------------------------
\* The primitive of a schema type.
PrimitiveOf(schema_type) ==
    CASE schema_type = "Boolean" -> "bool"
      [] schema_type = "String" -> "String"
      [] schema_type = "Number" -> "f64"
      [] schema_type = "Integer" -> "i32"

\* C24: get_type_from_schema on a schema of type boolean, string, number or
\* integer returns the primitive of the type, with or without a title and
\* with or without a fallback name.
C24_PrimitiveType ==
    (/\ Returned
     /\ call.object_schema.schema_type
            \in {Some(Single(schema_type)) :
                    schema_type \in {"Boolean", "String", "Number", "Integer"}})
    => /\ CallResult.st = "ok"
       /\ CallResult.val =
              TypeDefinition(
                  PrimitiveOf(Unwrap(call.object_schema.schema_type).single),
                  None)

----------------------------------------------------------------------------
\* The schema with its oneOf members moved to anyOf.
AnyOfVersion(object_schema) ==
    [object_schema EXCEPT !.any_of = object_schema.one_of, !.one_of = <<>>]

\* The call of the state made on the anyOf version of its schema.
AnyOfCall ==
    get_type_from_schema(EmptyStore(EmptyMap), 0, call.definition_path,
                         AnyOfVersion(call.object_schema),
                         call.object_variable_fallback_name)

\* C27: a schema that uses oneOf resolves as the same schema with oneOf
\* replaced by anyOf does: both fail or both return the same type (the enum
\* named after the title, else after the fallback name), and both leave the
\* same database entries.
C27_OneOfAsAnyOf ==
    (/\ Returned
     /\ call.object_schema.one_of # <<>>
     /\ call.object_schema.any_of = <<>>)
    => /\ CallResult.st = AnyOfCall.st
       /\ CallResult.st = "ok" => CallResult.val = AnyOfCall.val
       /\ object_database = AnyOfCall.s.db

----------------------------------------------------------------------------
\* The anyOf members of the schema of the call, else its oneOf members.
CallEnumMembers ==
    IF call.object_schema.any_of # <<>>
    THEN call.object_schema.any_of
    ELSE call.object_schema.one_of

\* Member i of the list has no derivable name: inline, without title and type.
AnonymousMember(i) ==
    ~member_struct_name(call.definition_path, CallEnumMembers[i]).ok

\* Member i of the list is an inline schema of a primitive type.
PrimitiveMember(i) ==
    /\ ~IsRef(CallEnumMembers[i])
    /\ CallEnumMembers[i].object.schema_type
           \in {Some(Single(schema_type)) :
                   schema_type \in {"Boolean", "String", "Number", "Integer"}}

\* C25: when a member of an anyOf or oneOf list has no derivable name, only
\* its variant is skipped: the enum is produced and stored, and it has the
\* variants of the other members.
C25_AnonymousMemberSkipped ==
    (/\ Returned
     /\ call.object_schema.schema_type = None
     /\ call.object_variable_fallback_name # None
     /\ \E i \in DOMAIN CallEnumMembers : AnonymousMember(i))
    => /\ CallResult.st = "ok"
       /\ CallResult.val.name \in DOMAIN object_database
       /\ object_database[CallResult.val.name].kind = "Enum"
       /\ \A i \in DOMAIN CallEnumMembers :
              PrimitiveMember(i) =>
                  object_type_enum_name(call.definition_path, CallEnumMembers[i])
                      \in DOMAIN object_database[CallResult.val.name].values

----------------------------------------------------------------------------
\* Member i of the list is a reference to a component of type object.
ObjectComponentMember(i) ==
    /\ IsRef(CallEnumMembers[i])
    /\ resolve(spec, CallEnumMembers[i]).ok
    /\ resolve(spec, CallEnumMembers[i]).val.schema_type = Some(Single("Object"))

\* The canonical name of the component member i refers to.
MemberCanonicalName(i) ==
    member_struct_name(call.definition_path, CallEnumMembers[i]).val[2]

\* C26: for every anyOf or oneOf member that is a reference to an object
\* component of canonical name N, titled or not, the enum has the variant
\* NValue and the variant's value type is the reference to N itself.
C26_VariantOfReference ==
    (/\ Returned
     /\ call.object_schema.schema_type = None
     /\ CallResult.st = "ok"
     /\ CallResult.val.name \in DOMAIN object_database
     /\ object_database[CallResult.val.name].kind = "Enum")
    => \A i \in DOMAIN CallEnumMembers :
           ObjectComponentMember(i) =>
               LET values == object_database[CallResult.val.name].values
                   value_name == MemberCanonicalName(i) \o "Value"
               IN  /\ value_name \in DOMAIN values
                   /\ values[value_name].value_type
                          = ObjectType(MemberCanonicalName(i))

----------------------------------------------------------------------------
\* The operations generate_operation of http_request.rs has run for.
HttpOperations ==
    {i \in 1..Len(generated_paths) : ~spec.operations[i].websocket}

\* The stages of generate_operation in the order of the specification.
StageOrder ==
    <<"response_entities", "path_parameters", "query_parameters",
      "request_body", "emission">>

\* C28: within generate_operation the stages run in the order response
\* entities, path parameters, query parameters, request body, emission; a
\* stage that fails returns at once: no later stage runs and no template is
\* emitted for the operation.
C28_StageOrder ==
    \A i \in HttpOperations :
        /\ \E n \in 0..Len(StageOrder) :
              generated_paths[i].stages = SubSeq(StageOrder, 1, n)
        /\ generated_paths[i].status = "generated"
               <=> generated_paths[i].stages = StageOrder
        /\ generated_paths[i].stages # StageOrder
               => generated_paths[i].template = None
        /\ generated_paths[i].stages = StageOrder
               => generated_paths[i].template # None

\* An operation failed in its request body after the three stages before it:
\* it has no template and hands on no response entities.
C28_Witness ==
    \E i \in HttpOperations :
        /\ generated_paths[i].stages = SubSeq(StageOrder, 1, 4)
        /\ generated_paths[i].status = "error"
        /\ generated_paths[i].template = None
        /\ generated_paths[i].response_entities = EmptyMap

----------------------------------------------------------------------------
\* C29: in every reachable state every entry of the database is stored under
\* the name of its definition, hulls and final definitions alike.
C29_KeyIsName ==
    \A key \in DOMAIN object_database : object_database[key].name = key

\* The database holds a hull next to a final definition.
C29_Witness ==
    /\ \E key \in DOMAIN object_database : IsHull(object_database[key])
    /\ \E key \in DOMAIN object_database : ~IsHull(object_database[key])
    /\ pc \in {"components", "paths"}

----------------------------------------------------------------------------
\* Component i is an array whose items are a reference to a component.
IsArrayOfReference(i) ==
    /\ ComponentSchema(i).schema_type = Some(Single("Array"))
    /\ ComponentSchema(i).items # None
    /\ IsRef(Unwrap(ComponentSchema(i).items))

\* Every component is an array of references: the references between the
\* components run through array items only, and no object is among them.
ArrayComponents ==
    /\ Components # {}
    /\ \A i \in Components : IsArrayOfReference(i)

\* C30: on a document whose reference cycles pass through array items only,
\* every resolution call returns: no call finds the stack exhausted.
C30_ArrayCycleTerminates ==
    ArrayComponents =>
        /\ pc # "overflow"
        /\ \A n \in 1..Len(pending) : pending[n].ev # "overflow"
        /\ \A i \in 1..Len(outcomes) : outcomes[i].status # "overflow"

=============================================================================
